---- MODULE Spec2Model ----
(***************************************************************************)
(* A model of the anon-identity mobile services: the QR payload parser     *)
(* (QRScannerService), the wallet service (AnonIdentityService), the       *)
(* on-device identity store (IdentityStorageService), the validation rule  *)
(* engine (IdentityValidationService), the reconciliation engine           *)
(* (IdentityFetchService) and the scanner hook (useQRScanner).             *)
(*                                                                         *)
(* JavaScript strings are TLA+ strings, read character by character with   *)
(* SubSeq.  Every other JavaScript value is a tagged record whose field t  *)
(* names its type; objects keep their keys in insertion order.             *)
(***************************************************************************)
EXTENDS Integers, Sequences, FiniteSets, TLC

VARIABLES
  \* IdentityValidationService
  rules,        \* this.rules: the ordered rule registry
  now,          \* the wall clock read by new Date(), in hours
  vIdentity,    \* the record handed to the last validateIdentity call
  vTotal,       \* totalScore as the loop of the last call left it
  vResult,      \* the ValidationResult the last call returned
  vClock,       \* the clock as the last call's rules read it
  vSummary,     \* what the last getValidationSummary call returned
  \* QRScannerService and the wallet-free functions of AnonIdentityService
  qrCall,       \* the function called last
  qrRaw,        \* the text handed to it
  qrOut,        \* what it returned
  \* AnonIdentityService
  wallet,       \* this.wallet: 0 for null, else the number of a wallet object
  initialized,  \* this.initialized
  walletCreds,  \* the credentials held by each wallet object made so far
  \* AsyncStorage
  stored,       \* the parsed item under 'anon_identities', or NoItem
  nextId,       \* the number of the id generateId gives next
  \* useQRScanner and IdentityProvider
  scanError,    \* the hook's error state
  isScanning,   \* the hook's isScanning state
  ctxIdentities,\* the provider's identities state
  ctxError,     \* the provider's error state
  ctxLoading,   \* the provider's loading state
  \* The calls in flight
  tasks,        \* per slot: the call running there, or the idle task
  calls,        \* how many calls were made so far
  lastReturn,   \* what the call that returned in the last step returned
  \* History
  inits,        \* wallets assigned by initialize() calls made since the last reset()
  epoch,        \* how many times reset() ran
  readyBorn,    \* the epoch in which the initialize() that set the wallet was called
  credBacked,   \* the ids of records made from, or reconciled with, a credential
  \* PerformanceService
  events,       \* this.events
  received,     \* how many events trackEvent and importData were given so far
  perfCalls,    \* how many trackEvent and importData calls were made so far
  perfOut       \* what the last call of the service returned

valVars == <<rules, now, vIdentity, vTotal, vResult, vClock, vSummary>>
qrVars == <<qrCall, qrRaw, qrOut>>
walletVars == <<wallet, initialized, walletCreds>>
storeVars == <<stored, nextId>>
uiVars == <<scanError, isScanning, ctxIdentities, ctxError, ctxLoading>>
taskVars == <<tasks, calls, lastReturn>>
histVars == <<inits, epoch, readyBorn, credBacked>>
sysVars == <<walletVars, storeVars, uiVars, taskVars, histVars>>
perfVars == <<events, received, perfCalls, perfOut>>
vars == <<valVars, qrVars, sysVars, perfVars>>

\* What the operations of one service leave alone.
notVal == <<qrVars, sysVars, perfVars>>
notQr == <<valVars, sysVars, perfVars>>
notSys == <<rules, vIdentity, vTotal, vResult, vClock, vSummary, qrVars, perfVars>>
notPerf == <<rules, vIdentity, vTotal, vResult, vClock, vSummary, qrVars, sysVars>>

----------------------------------------------------------------------------
(* JavaScript values *)

Undef == [t |-> "undefined"]
Null == [t |-> "null"]
Str(s) == [t |-> "string", v |-> s]
\* A number is kept as its canonical decimal literal ("0", "42", "-7").
Num(n) == [t |-> "number", v |-> n]
Bool(b) == [t |-> "boolean", v |-> b]
Arr(items) == [t |-> "array", v |-> items]
\* An object: its keys in insertion order and, at the same places, their values.
Obj(keys, vals) == [t |-> "object", k |-> keys, v |-> vals]
EmptyObj == Obj(<<>>, <<>>)

IsStr(x) == x.t = "string"
IsObj(x) == x.t = "object"
IsArr(x) == x.t = "array"

\* ToBoolean: undefined, null, false, 0 and "" are falsy, all else truthy.
Truthy(x) ==
  CASE x.t = "undefined" -> FALSE
    [] x.t = "null" -> FALSE
    [] x.t = "boolean" -> x.v
    [] x.t = "number" -> x.v # "0"
    [] x.t = "string" -> x.v # ""
    [] OTHER -> TRUE

\* a || b
Or(a, b) == IF Truthy(a) THEN a ELSE b

\* a === b.  Objects and arrays are compared by reference; every object the
\* services compare comes from its own JSON.parse, so two of them never agree.
StrictEq(a, b) ==
  /\ a.t = b.t
  /\ a.t \notin {"object", "array", "date"}
  /\ (a.t \in {"undefined", "null"} \/ a.v = b.v)

\* Places of key in an object's key list (at most one).
KeyIdx(o, key) == {i \in 1..Len(o.k) : o.k[i] = key}
HasKey(o, key) == KeyIdx(o, key) # {}

\* o[key]: a property read.  A read on undefined or null throws, which the
\* callers test with CanRead before they read.
CanRead(o) == o.t \notin {"undefined", "null"}
Get(o, key) ==
  IF IsObj(o) /\ HasKey(o, key)
    THEN o.v[CHOOSE i \in KeyIdx(o, key) : TRUE]
    ELSE Undef

\* o[key] = val: an existing key keeps its place, a new key goes last.
Put(o, key, val) ==
  IF HasKey(o, key)
    THEN Obj(o.k, [o.v EXCEPT ![CHOOSE i \in KeyIdx(o, key) : TRUE] = val])
    ELSE Obj(Append(o.k, key), Append(o.v, val))

----------------------------------------------------------------------------
(* Strings *)

\* s.charAt(i), counted from 1: "" outside the string.
CharAt(s, i) == IF i \in 1..Len(s) THEN SubSeq(s, i, i) ELSE ""
IsSpace(c) == c \in {" ", "\t", "\n", "\r"}
IsDigit(c) == c \in {"0", "1", "2", "3", "4", "5", "6", "7", "8", "9"}

\* s.includes(sub)
Includes(s, sub) ==
  \E i \in 1..(Len(s) - Len(sub) + 1) : SubSeq(s, i, i + Len(sub) - 1) = sub

\* s.indexOf(sub), counted from 1; 0 when sub does not occur.
IndexOf(s, sub) ==
  IF Includes(s, sub)
    THEN CHOOSE i \in 1..(Len(s) - Len(sub) + 1) :
           /\ SubSeq(s, i, i + Len(sub) - 1) = sub
           /\ \A j \in 1..(i - 1) : SubSeq(s, j, j + Len(sub) - 1) # sub
    ELSE 0

\* s.replace(sub, rep) with a string pattern: the first occurrence only.
Replace(s, sub, rep) ==
  LET i == IndexOf(s, sub) IN
  IF i = 0 THEN s
  ELSE SubSeq(s, 1, i - 1) \o rep \o SubSeq(s, i + Len(sub), Len(s))

\* s.trim()
Trim(s) ==
  LET keep == {i \in 1..Len(s) : ~IsSpace(CharAt(s, i))} IN
  IF keep = {} THEN ""
  ELSE LET lo == CHOOSE i \in keep : \A j \in keep : i <= j
           hi == CHOOSE i \in keep : \A j \in keep : j <= i
       IN SubSeq(s, lo, hi)

\* Math.round(n / d) for d > 0: halves round up.
RoundDiv(n, d) == (2 * n + d) \div (2 * d)
Max(a, b) == IF a >= b THEN a ELSE b
Min(a, b) == IF a <= b THEN a ELSE b

SetMin(S) == CHOOSE x \in S : \A y \in S : x <= y
SetMax(S) == CHOOSE x \in S : \A y \in S : y <= x

\* Array.prototype.filter by place: the elements of seq at the places in keep,
\* in their order.
SelectIdx(seq, keep) ==
  [j \in 1..Cardinality(keep) |->
     seq[CHOOSE i \in keep : Cardinality({k \in keep : k <= i}) = j]]

----------------------------------------------------------------------------
(* Object.keys, Object.assign and the loops over keys *)

\* Object.keys(x): an object's own keys; the places "0", "1", ... of an array
\* or a string; none of a number or a boolean.
Keys(o) ==
  IF IsObj(o) THEN o.k
  ELSE IF IsArr(o) \/ IsStr(o) THEN [i \in 1..Len(o.v) |-> ToString(i - 1)]
  ELSE <<>>

\* x[key] for a key that Object.keys(x) gave at place i.
ValueAt(o, i) ==
  IF IsObj(o) \/ IsArr(o) THEN o.v[i] ELSE Str(CharAt(o.v, i))

\* knownFields.includes(key)
InSeq(seq, x) == \E i \in 1..Len(seq) : seq[i] = x

\* Where a value computed on the way is used more than once, it is bound as
\* the element of a one-element set, so that it is computed once.
RECURSIVE AssignFrom(_, _, _)
AssignFrom(target, src, i) ==
  IF i > Len(Keys(src)) THEN target
  ELSE CHOOSE out \in {AssignFrom(t2, src, i + 1) :
                         t2 \in {Put(target, Keys(src)[i], ValueAt(src, i))}} : TRUE

\* additionalData[key] = val on an object made by {}: the key "__proto__"
\* is the accessor the object inherits, so the assignment sets or leaves the
\* prototype and adds no key of its own; any other key is a property write.
\* (The prototype is not part of an object here: nothing reads through it.)
SetMember(o, key, val) == IF key = "__proto__" THEN o ELSE Put(o, key, val)

\* The keys of src that are not in knownFields, with their values, added to
\* target in order: the loop of the extractAdditional... helpers.
RECURSIVE CopyUnknown(_, _, _, _)
CopyUnknown(target, src, knownFields, i) ==
  IF i > Len(Keys(src)) THEN target
  ELSE CHOOSE out \in
         {CopyUnknown(t2, src, knownFields, i + 1) :
            t2 \in {IF InSeq(knownFields, Keys(src)[i]) THEN target
                     ELSE SetMember(target, Keys(src)[i], ValueAt(src, i))}} : TRUE

\* Object.assign(target, src) and the spread {...target, ...src}: spreading
\* undefined or null adds nothing.
Assign(target, src) == AssignFrom(target, src, 1)

----------------------------------------------------------------------------
(* JSON.parse and JSON.stringify.                                          *)
(* The grammar is JSON's, without escape sequences inside strings and      *)
(* without fractions or exponents in numbers: the payloads the model draws *)
(* use neither.                                                            *)

ParseFail == [ok |-> FALSE, val |-> Undef, next |-> 0]
ParseOk(v, n) == [ok |-> TRUE, val |-> v, next |-> n]

\* The first place at or after i that holds no JSON whitespace.
SkipWs(s, i) ==
  LET rest == {j \in i..Len(s) : ~IsSpace(CharAt(s, j))} IN
  IF rest = {} THEN Len(s) + 1 ELSE SetMin(rest)

\* A string literal whose opening quote is at i.
ParseStringAt(s, i) ==
  LET closes == {j \in (i + 1)..Len(s) : CharAt(s, j) = "\""} IN
  IF closes = {} THEN ParseFail
  ELSE LET j == SetMin(closes)
           body == SubSeq(s, i + 1, j - 1)
       IN IF \E p \in 1..Len(body) : CharAt(body, p) \in {"\\", "\n", "\t", "\r"}
            THEN ParseFail
            ELSE ParseOk(Str(body), j + 1)

\* An integer literal starting at i: -?(0|[1-9][0-9]*).  -0 reads as 0.
ParseNumberAt(s, i) ==
  LET neg == CharAt(s, i) = "-"
      st == IF neg THEN i + 1 ELSE i
      stops == {j \in st..Len(s) : ~IsDigit(CharAt(s, j))}
      en == IF stops = {} THEN Len(s) + 1 ELSE SetMin(stops)
      digits == SubSeq(s, st, en - 1)
  IN IF en = st THEN ParseFail
     ELSE IF en - st > 1 /\ CharAt(s, st) = "0" THEN ParseFail
     ELSE IF CharAt(s, en) \in {".", "e", "E"} THEN ParseFail
     ELSE ParseOk(Num(IF neg /\ digits # "0" THEN "-" \o digits ELSE digits), en)

RECURSIVE ParseValue(_, _)
RECURSIVE ParseObjectRest(_, _, _, _)
RECURSIVE ParseArrayRest(_, _, _, _)

ParseValue(s, i0) ==
  CHOOSE out \in
    {LET c == CharAt(s, i) IN
     IF i > Len(s) THEN ParseFail
     ELSE IF c = "{" THEN ParseObjectRest(s, SkipWs(s, i + 1), EmptyObj, TRUE)
     ELSE IF c = "[" THEN ParseArrayRest(s, SkipWs(s, i + 1), <<>>, TRUE)
     ELSE IF c = "\"" THEN ParseStringAt(s, i)
     ELSE IF c = "-" \/ IsDigit(c) THEN ParseNumberAt(s, i)
     ELSE IF i + 3 <= Len(s) /\ SubSeq(s, i, i + 3) = "true" THEN ParseOk(Bool(TRUE), i + 4)
     ELSE IF i + 4 <= Len(s) /\ SubSeq(s, i, i + 4) = "false" THEN ParseOk(Bool(FALSE), i + 5)
     ELSE IF i + 3 <= Len(s) /\ SubSeq(s, i, i + 3) = "null" THEN ParseOk(Null, i + 4)
     ELSE ParseFail
     : i \in {SkipWs(s, i0)}} : TRUE

\* The members of an object after its "{", i at the next non-blank place.  A
\* repeated key keeps its first place and takes the later value.
ParseObjectRest(s, i, acc, first) ==
  IF first /\ CharAt(s, i) = "}" THEN ParseOk(acc, i + 1)
  ELSE IF CharAt(s, i) # "\"" THEN ParseFail
  ELSE CHOOSE out \in
         {IF ~key.ok THEN ParseFail
          ELSE LET c == SkipWs(s, key.next) IN
               IF CharAt(s, c) # ":" THEN ParseFail
               ELSE CHOOSE res \in
                      {IF ~val.ok THEN ParseFail
                       ELSE CHOOSE r \in
                              {LET d == SkipWs(s, val.next) IN
                               IF CharAt(s, d) = ","
                                 THEN ParseObjectRest(s, SkipWs(s, d + 1), acc2, FALSE)
                               ELSE IF CharAt(s, d) = "}" THEN ParseOk(acc2, d + 1)
                               ELSE ParseFail
                               : acc2 \in {Put(acc, key.val.v, val.val)}} : TRUE
                       : val \in {ParseValue(s, c + 1)}} : TRUE
          : key \in {ParseStringAt(s, i)}} : TRUE

\* The elements of an array after its "[".
ParseArrayRest(s, i, acc, first) ==
  IF first /\ CharAt(s, i) = "]" THEN ParseOk(Arr(acc), i + 1)
  ELSE CHOOSE out \in
         {IF ~val.ok THEN ParseFail
          ELSE CHOOSE r \in
                 {LET d == SkipWs(s, val.next) IN
                  IF CharAt(s, d) = ","
                    THEN ParseArrayRest(s, SkipWs(s, d + 1), acc2, FALSE)
                  ELSE IF CharAt(s, d) = "]" THEN ParseOk(Arr(acc2), d + 1)
                  ELSE ParseFail
                  : acc2 \in {Append(acc, val.val)}} : TRUE
          : val \in {ParseValue(s, i)}} : TRUE

\* JSON.parse(s): ok is FALSE where JSON.parse throws a SyntaxError.
JSONparse(s) ==
  CHOOSE out \in
    {IF r.ok /\ SkipWs(s, r.next) > Len(s)
       THEN [ok |-> TRUE, val |-> r.val]
       ELSE [ok |-> FALSE, val |-> Undef]
     : r \in {ParseValue(s, 1)}} : TRUE

RECURSIVE JSONstringify(_)
RECURSIVE StringifyMembers(_, _, _)
RECURSIVE StringifyElements(_, _)

\* JSON.stringify(x) of a defined value.
JSONstringify(x) ==
  CASE x.t = "string" -> "\"" \o x.v \o "\""
    [] x.t = "number" -> x.v
    [] x.t = "boolean" -> IF x.v THEN "true" ELSE "false"
    [] x.t = "object" -> "{" \o StringifyMembers(x, 1, TRUE) \o "}"
    [] x.t = "array" -> "[" \o StringifyElements(x.v, 1) \o "]"
    [] OTHER -> "null"

\* A member whose value is undefined is left out.
StringifyMembers(o, i, first) ==
  IF i > Len(o.k) THEN ""
  ELSE IF o.v[i].t = "undefined" THEN StringifyMembers(o, i + 1, first)
  ELSE (IF first THEN "" ELSE ",")
       \o "\"" \o o.k[i] \o "\":" \o JSONstringify(o.v[i])
       \o StringifyMembers(o, i + 1, FALSE)

StringifyElements(items, i) ==
  IF i > Len(items) THEN ""
  ELSE (IF i = 1 THEN "" ELSE ",") \o JSONstringify(items[i])
       \o StringifyElements(items, i + 1)

----------------------------------------------------------------------------
(* IdentityValidationService *)

HoursPerDay == 24

\* What one rule's validate returns; threw is TRUE where it throws instead.
RuleOutcome(valid, error, warning, score) ==
  [threw |-> FALSE, valid |-> valid, error |-> error, warning |-> warning, score |-> score]
RuleThrew == [threw |-> TRUE, valid |-> FALSE, error |-> Undef, warning |-> Undef, score |-> 0]

\* x && x.trim().length > 0, as a boolean; a truthy x that is no string has no
\* trim and the read throws.
TrimThrows(x) == Truthy(x) /\ ~IsStr(x)
Filled(x) == Truthy(x) /\ IsStr(x) /\ Len(Trim(x.v)) > 0

\* /^[^\s@]+@[^\s@]+\.[^\s@]+$/.test(s)
emailRegex(s) ==
  /\ \A i \in 1..Len(s) : ~IsSpace(CharAt(s, i))
  /\ Cardinality({i \in 1..Len(s) : CharAt(s, i) = "@"}) = 1
  /\ LET at == IndexOf(s, "@") IN
     /\ at > 1
     /\ \E dot \in (at + 2)..(Len(s) - 1) : CharAt(s, dot) = "."

\* /^[+]?[\d\s\-()]{10,}$/.test(s)
phoneRegex(s) ==
  LET st == IF CharAt(s, 1) = "+" THEN 2 ELSE 1 IN
  /\ Len(s) - st + 1 >= 10
  /\ \A i \in st..Len(s) :
       LET c == CharAt(s, i) IN IsDigit(c) \/ IsSpace(c) \/ c \in {"-", "(", ")"}

\* RegExp.prototype.test(x) turns x into a string first; of the values a record
\* holds only a string can match either pattern.
RegexTest(x, isEmail) ==
  IsStr(x) /\ (IF isEmail THEN emailRegex(x.v) ELSE phoneRegex(x.v))

RequiredName(identity) ==
  IF TrimThrows(identity.name) THEN RuleThrew
  ELSE LET hasName == Filled(identity.name) IN
       RuleOutcome(hasName,
                   IF hasName THEN Undef ELSE Str("Identity must have a name"),
                   Undef,
                   IF hasName THEN 20 ELSE 0)

ValidEmailFormatUnrewarded(identity) ==
  IF ~Truthy(identity.email) THEN RuleOutcome(TRUE, Undef, Undef, 0)
  ELSE LET isValid == RegexTest(identity.email, TRUE) IN
       RuleOutcome(isValid,
                   IF isValid THEN Undef ELSE Str("Invalid email format"),
                   Undef,
                   IF isValid THEN 0 ELSE -10)

ValidEmailFormat(identity) ==
  IF ~Truthy(identity.email) THEN RuleOutcome(TRUE, Undef, Undef, 0)
  ELSE LET isValid == RegexTest(identity.email, TRUE) IN
       RuleOutcome(isValid,
                   IF isValid THEN Undef ELSE Str("Invalid email format"),
                   Undef,
                   IF isValid THEN 15 ELSE -10)

ValidPhoneFormat(identity) ==
  IF ~Truthy(identity.phone) THEN RuleOutcome(TRUE, Undef, Undef, 0)
  ELSE LET isValid == RegexTest(identity.phone, FALSE) IN
       RuleOutcome(isValid,
                   IF isValid THEN Undef ELSE Str("Invalid phone number format"),
                   Undef,
                   IF isValid THEN 10 ELSE -5)

QRDataIntegrity(identity) ==
  IF TrimThrows(identity.qrData) THEN RuleThrew
  ELSE IF ~Filled(identity.qrData)
    THEN RuleOutcome(FALSE, Str("Missing QR code data"), Undef, -20)
  ELSE IF JSONparse(identity.qrData.v).ok
    THEN RuleOutcome(TRUE, Undef, Undef, 15)
  ELSE LET hasValidFormat == \/ Includes(identity.qrData.v, "@")
                             \/ Includes(identity.qrData.v, "identity:")
                             \/ Includes(identity.qrData.v, "user:")
       IN RuleOutcome(TRUE,
                      Undef,
                      IF hasValidFormat THEN Undef ELSE Str("QR data format may be invalid"),
                      IF hasValidFormat THEN 10 ELSE 5)

VerificationStatus(identity) ==
  RuleOutcome(TRUE,
              Undef,
              IF Truthy(identity.isVerified) THEN Undef ELSE Str("Identity is not verified"),
              IF Truthy(identity.isVerified) THEN 25 ELSE 0)

DataCompletenessFloor(identity) ==
  LET fields == <<identity.name, identity.email, identity.phone>> IN
  IF \E i \in 1..3 : TrimThrows(fields[i]) THEN RuleThrew
  ELSE LET filledFields == Cardinality({i \in 1..3 : Filled(fields[i])})
           completeness == RoundDiv(filledFields * 100, 3)
       IN RuleOutcome(TRUE,
                      Undef,
                      IF completeness < 67 THEN Str("Identity data is incomplete") ELSE Undef,
                      (completeness * 15) \div 100)

DataCompleteness(identity) ==
  LET fields == <<identity.name, identity.email, identity.phone>> IN
  IF \E i \in 1..3 : TrimThrows(fields[i]) THEN RuleThrew
  ELSE LET filledFields == Cardinality({i \in 1..3 : Filled(fields[i])})
           completeness == RoundDiv(filledFields * 100, 3)
       IN RuleOutcome(TRUE,
                      Undef,
                      IF completeness < 67 THEN Str("Identity data is incomplete") ELSE Undef,
                      RoundDiv(completeness * 15, 100))

\* x?.length > 0 for the credentials list: an array's or a string's length.
LengthPositive(x) ==
  \/ IsArr(x) /\ Len(x.v) > 0
  \/ IsStr(x) /\ Len(x.v) > 0

CredentialValidation(identity) ==
  LET ad == identity.additionalData
      hasCredentials == \/ Truthy(Get(ad, "credentialId"))
                        \/ LengthPositive(Get(ad, "credentials"))
      hasValidCredentialData == Truthy(Get(ad, "issuer")) /\ Truthy(Get(ad, "issuanceDate"))
  IN IF ~hasCredentials
       THEN RuleOutcome(TRUE, Undef, Str("No verifiable credentials associated"), 0)
       ELSE RuleOutcome(TRUE, Undef, Undef, IF hasValidCredentialData THEN 20 ELSE 10)

DataFreshnessCeil(identity, clock) ==
  LET daysSinceAdded == (clock - identity.dateAdded + HoursPerDay - 1) \div HoursPerDay IN
  IF daysSinceAdded <= 7 THEN RuleOutcome(TRUE, Undef, Undef, 10)
  ELSE IF daysSinceAdded <= 30 THEN RuleOutcome(TRUE, Undef, Undef, 5)
  ELSE IF daysSinceAdded <= 90
    THEN RuleOutcome(TRUE, Undef, Str("Identity data is more than 30 days old"), 0)
  ELSE RuleOutcome(TRUE, Undef,
                   Str("Identity data is more than 90 days old - consider refreshing"), -5)

\* dateAdded and the clock are in hours; Math.floor of their distance in days.
DataFreshness(identity, clock) ==
  LET daysSinceAdded == (clock - identity.dateAdded) \div HoursPerDay IN
  IF daysSinceAdded <= 7 THEN RuleOutcome(TRUE, Undef, Undef, 10)
  ELSE IF daysSinceAdded <= 30 THEN RuleOutcome(TRUE, Undef, Undef, 5)
  ELSE IF daysSinceAdded <= 90
    THEN RuleOutcome(TRUE, Undef, Str("Identity data is more than 30 days old"), 0)
  ELSE RuleOutcome(TRUE, Undef,
                   Str("Identity data is more than 90 days old - consider refreshing"), -5)

\* A registry entry: a default rule is known by its name, a custom rule
\* (addCustomRule) carries the outcome its validate gives.
DefaultRule(name) == [name |-> name, custom |-> FALSE, outcome |-> RuleThrew]
CustomRule(name, outcome) == [name |-> name, custom |-> TRUE, outcome |-> outcome]

initializeDefaultRules ==
  << DefaultRule("Required Name"),
     DefaultRule("Valid Email Format"),
     DefaultRule("Valid Phone Format"),
     DefaultRule("QR Data Integrity"),
     DefaultRule("Verification Status"),
     DefaultRule("Data Completeness"),
     DefaultRule("Credential Validation"),
     DefaultRule("Data Freshness") >>

\* rule.validate(identity)
ValidateRule(rule, identity, clock) ==
  IF rule.custom THEN rule.outcome
  ELSE CASE rule.name = "Required Name" -> RequiredName(identity)
         [] rule.name = "Valid Email Format" -> ValidEmailFormat(identity)
         [] rule.name = "Valid Phone Format" -> ValidPhoneFormat(identity)
         [] rule.name = "QR Data Integrity" -> QRDataIntegrity(identity)
         [] rule.name = "Verification Status" -> VerificationStatus(identity)
         [] rule.name = "Data Completeness" -> DataCompleteness(identity)
         [] rule.name = "Credential Validation" -> CredentialValidation(identity)
         [] OTHER -> DataFreshness(identity, clock)

----------------------------------------------------------------------------
(* The validation service's inputs *)

MaxCustomRules == 2
MaxTicks == 1
\* The clock when the model starts, in hours: day 200.
StartClock == 4800

MkIdentity(name, email, phone, qrData, isVerified, additionalData, dateAdded) ==
  [id |-> "id1", name |-> name, email |-> email, phone |-> phone,
   dateAdded |-> dateAdded, qrData |-> qrData, isVerified |-> isVerified,
   additionalData |-> additionalData]

CredentialMetadata ==
  Obj(<<"credentialId", "issuer", "issuanceDate">>,
      <<Str("cred-123"), Str("did:example:issuer"), Str("2024-01-15T00:00:00Z")>>)

\* A record every default rule scores highest, and one every rule scores lowest.
BestIdentity ==
  MkIdentity(Str("Jane Doe"), Str("jane@x.com"), Str("+1 (555) 123-4567"),
             Str("{\"name\":\"Jane Doe\"}"), Bool(TRUE), CredentialMetadata, StartClock)
WorstIdentity ==
  MkIdentity(Str(""), Str("invalid-email"), Str("123"), Str(""), Bool(FALSE), Undef,
             StartClock - 91 * HoursPerDay)

\* A record in the middle: a name, a text that is no JSON and has no marker,
\* nothing else, a month old.
MiddleIdentity ==
  MkIdentity(Str("Jane Doe"), Undef, Undef, Str("some-random-identifier"), Bool(FALSE),
             Undef, StartClock - 31 * HoursPerDay)

NameSamples == {Str(""), Str("   "), Str("Jane Doe"), Num("7")}
EmailSamples == {Undef, Str("jane@x.com"), Str("invalid-email"), Str("a@b"), Str("a b@x.com")}
PhoneSamples == {Undef, Str("+1 (555) 123-4567"), Str("123"), Str("1234567890"), Str("12345678x0")}
QRSamples == {Str(""), Str("{\"name\":\"Jane Doe\"}"), Str("1234567890"),
              Str("jane@x.com"), Str("identity:jane"), Str("some-random-identifier")}
AdditionalDataSamples ==
  {Undef, EmptyObj, CredentialMetadata,
   Obj(<<"credentialId">>, <<Str("cred-123")>>),
   Obj(<<"credentials", "issuer">>, <<Arr(<<Str("c")>>), Str("did:example:issuer")>>),
   Obj(<<"credentials">>, <<Arr(<<>>)>>),
   Obj(<<"issuer", "issuanceDate">>,
       <<Str("did:example:issuer"), Str("2024-01-15T00:00:00Z")>>)}
DateAddedSamples ==
  {StartClock, StartClock - 7 * HoursPerDay,
   StartClock - 8 * HoursPerDay + 1, StartClock - 8 * HoursPerDay,
   StartClock - 30 * HoursPerDay, StartClock - 31 * HoursPerDay,
   StartClock - 90 * HoursPerDay, StartClock - 91 * HoursPerDay}

\* The records that differ from base in at most one field.
VaryOne(base) ==
  {[base EXCEPT !.name = x] : x \in NameSamples}
  \cup {[base EXCEPT !.email = x] : x \in EmailSamples}
  \cup {[base EXCEPT !.phone = x] : x \in PhoneSamples}
  \cup {[base EXCEPT !.qrData = x] : x \in QRSamples}
  \cup {[base EXCEPT !.isVerified = x] : x \in {Bool(TRUE), Bool(FALSE)}}
  \cup {[base EXCEPT !.additionalData = x] : x \in AdditionalDataSamples}
  \cup {[base EXCEPT !.dateAdded = x] : x \in DateAddedSamples}

ValidationIdentities ==
  VaryOne(BestIdentity) \cup VaryOne(WorstIdentity) \cup VaryOne(MiddleIdentity)

CustomRules ==
  {CustomRule("Custom Bonus", RuleOutcome(TRUE, Undef, Undef, 150)),
   CustomRule("Custom Penalty",
              RuleOutcome(FALSE, Str("custom error"), Str("custom warning"), -200)),
   CustomRule("Custom Faulty", RuleThrew)}

RemovableNames ==
  {"Required Name", "Credential Validation", "No Such Rule"}
  \cup {r.name : r \in CustomRules}

Clocks == StartClock..(StartClock + MaxTicks)

\* The default rules' outcomes on the records and clock readings the model
\* draws, evaluated once; Validate reads them here and evaluates any other
\* call directly.
DefaultOutcomes ==
  [identity \in ValidationIdentities |->
    [clock \in Clocks |->
      [i \in 1..Len(initializeDefaultRules) |->
        ValidateRule(initializeDefaultRules[i], identity, clock)]]]

DefaultIdx(rule) ==
  {i \in 1..Len(initializeDefaultRules) : initializeDefaultRules[i].name = rule.name}

Validate(rule, identity, clock) ==
  IF ~rule.custom /\ identity \in ValidationIdentities /\ clock \in Clocks
    THEN DefaultOutcomes[identity][clock][CHOOSE i \in DefaultIdx(rule) : TRUE]
    ELSE ValidateRule(rule, identity, clock)

RuleStepThrowIsError(acc, name, result) ==
  IF result.threw
    THEN [acc EXCEPT !.errors =
           Append(@, "Validation rule '" \o name \o "' failed to execute")]
    ELSE [errors |-> IF ~result.valid /\ Truthy(result.error)
                       THEN Append(acc.errors, result.error.v)
                       ELSE acc.errors,
          warnings |-> IF Truthy(result.warning)
                         THEN Append(acc.warnings, result.warning.v)
                         ELSE acc.warnings,
          totalScore |-> acc.totalScore + result.score]

\* The loop of validateIdentity from rule i on: acc holds errors, warnings and
\* totalScore so far.
RuleStep(acc, name, result) ==
  IF result.threw
    THEN [acc EXCEPT !.warnings =
           Append(@, "Validation rule '" \o name \o "' failed to execute")]
    ELSE [errors |-> IF ~result.valid /\ Truthy(result.error)
                       THEN Append(acc.errors, result.error.v)
                       ELSE acc.errors,
          warnings |-> IF Truthy(result.warning)
                         THEN Append(acc.warnings, result.warning.v)
                         ELSE acc.warnings,
          totalScore |-> acc.totalScore + result.score]

RECURSIVE RunRules(_, _, _, _, _)
RunRules(rs, i, identity, clock, acc) ==
  IF i > Len(rs) THEN acc
  ELSE CHOOSE out \in
         {RunRules(rs, i + 1, identity, clock, acc2) :
            acc2 \in {RuleStep(acc, rs[i].name, result) :
                        result \in {Validate(rs[i], identity, clock)}}} : TRUE

\* Math.max(0, Math.min(100, totalScore))
NormalizeOnlyAbove(totalScore) == Min(100, totalScore)
Normalize(totalScore) == Max(0, Min(100, totalScore))

validateIdentity(rs, identity, clock) ==
  CHOOSE out \in
    {[isValid |-> Len(acc.errors) = 0,
      errors |-> acc.errors,
      warnings |-> acc.warnings,
      score |-> Normalize(acc.totalScore)]
     : acc \in {RunRules(rs, 1, identity, clock,
                         [errors |-> <<>>, warnings |-> <<>>, totalScore |-> 0])}} : TRUE

\* addCustomRule(rule)
addCustomRule(rs, rule) == Append(rs, rule)

\* removeRule(ruleName): every rule of that name goes.
removeRule(rs, ruleName) == SelectIdx(rs, {i \in 1..Len(rs) : rs[i].name # ruleName})

\* array.slice(0, n)
SliceTo(seq, n) == SubSeq(seq, 1, Min(n, Len(seq)))

MaxShown == 3

\* getValidationSummary(identity), on the result of its validateIdentity call
summarize(identity, validation) ==
  LET level == IF validation.score >= 80 THEN "excellent"
               ELSE IF validation.score >= 60 THEN "good"
               ELSE IF validation.score >= 40 THEN "fair"
               ELSE "poor"
      primaryIssues == validation.errors \o SliceTo(validation.warnings, MaxShown)
      recommendations ==
        (IF ~Truthy(identity.isVerified)
           THEN <<"Scan a QR code with verifiable credentials to improve trust">>
           ELSE <<>>)
        \o (IF ~Truthy(identity.email)
              THEN <<"Add an email address for better identity verification">>
              ELSE <<>>)
        \o (IF ~Truthy(identity.phone)
              THEN <<"Add a phone number for additional contact information">>
              ELSE <<>>)
        \o (IF Len(validation.errors) > 0
              THEN <<"Fix validation errors to improve identity reliability">>
              ELSE <<>>)
  IN [level |-> level,
      score |-> validation.score,
      primaryIssues |-> primaryIssues,
      recommendations |-> SliceTo(recommendations, MaxShown)]

getValidationSummary(rs, identity, clock) ==
  CHOOSE out \in {summarize(identity, validation) :
                    validation \in {validateIdentity(rs, identity, clock)}} : TRUE

NoIdentity == [none |-> TRUE]
NoResult == [none |-> TRUE]
NoSummary == [none |-> TRUE]

ValIdle ==
  /\ rules = initializeDefaultRules
  /\ now = StartClock
  /\ vIdentity = NoIdentity
  /\ vTotal = 0
  /\ vResult = NoResult
  /\ vClock = StartClock
  /\ vSummary = NoSummary

(* The validation service's operations.  A ValidationResult belongs to the
   registry that made it: the caller drops it when the registry changes, and
   keeps it while time passes. *)

ResultTaken ==
  /\ vIdentity' = NoIdentity /\ vTotal' = 0 /\ vResult' = NoResult /\ vClock' = StartClock
  /\ vSummary' = NoSummary

AddCustomRule ==
  /\ Cardinality({i \in 1..Len(rules) : rules[i].custom}) < MaxCustomRules
  /\ \E rule \in CustomRules : rules' = addCustomRule(rules, rule)
  /\ ResultTaken
  /\ UNCHANGED <<now, notVal>>

RemoveRule ==
  /\ \E ruleName \in RemovableNames : rules' = removeRule(rules, ruleName)
  /\ ResultTaken
  /\ UNCHANGED <<now, notVal>>

\* Time passes between two calls.
Tick ==
  /\ now < StartClock + MaxTicks
  /\ now' = now + 1
  /\ UNCHANGED <<rules, vIdentity, vTotal, vResult, vClock, vSummary, notVal>>

ValidateIdentity ==
  /\ \E identity \in ValidationIdentities :
       /\ vIdentity' = identity
       /\ vResult' = validateIdentity(rules, identity, now)
       /\ vTotal' = RunRules(rules, 1, identity, now,
                             [errors |-> <<>>, warnings |-> <<>>, totalScore |-> 0]).totalScore
       /\ vClock' = now
  /\ vSummary' = NoSummary
  /\ UNCHANGED <<rules, now, notVal>>

\* getValidationSummary(identity): vResult is the result of the call of
\* validateIdentity it makes.
GetValidationSummary ==
  /\ \E identity \in ValidationIdentities :
       /\ vIdentity' = identity
       /\ vResult' = validateIdentity(rules, identity, now)
       /\ vTotal' = RunRules(rules, 1, identity, now,
                             [errors |-> <<>>, warnings |-> <<>>, totalScore |-> 0]).totalScore
       /\ vClock' = now
       /\ vSummary' = getValidationSummary(rules, identity, now)
  /\ UNCHANGED <<rules, now, notVal>>

----------------------------------------------------------------------------
(* QRScannerService *)

HasMarker(data) ==
  Includes(data, "@") \/ Includes(data, "identity:") \/ Includes(data, "user:")

\* typeof parsed === 'object' && parsed !== null
IsObjectType(x) == IsObj(x) \/ IsArr(x)

isValidAnonIdentityQR(data) ==
  CHOOSE out \in
    {IF parsed.ok /\ IsObjectType(parsed.val)
       THEN Truthy(Or(Or(Get(parsed.val, "name"), Get(parsed.val, "id")),
                      Get(parsed.val, "identifier")))
       ELSE HasMarker(data)
     : parsed \in {JSONparse(data)}} : TRUE

MinQRLength == 10

validateQRDataAnyLength(data) ==
  IF data = "" \/ Len(Trim(data)) = 0
    THEN [isValid |-> FALSE, error |-> Str("QR code data is empty")]
  ELSE IF ~isValidAnonIdentityQR(data)
    THEN [isValid |-> FALSE, error |-> Str("QR code does not contain valid identity data")]
  ELSE [isValid |-> TRUE, error |-> Undef]

validateQRData(data) ==
  IF data = "" \/ Len(Trim(data)) = 0
    THEN [isValid |-> FALSE, error |-> Str("QR code data is empty")]
  ELSE IF Len(data) < MinQRLength
    THEN [isValid |-> FALSE, error |-> Str("QR code data appears to be too short")]
  ELSE IF ~isValidAnonIdentityQR(data)
    THEN [isValid |-> FALSE, error |-> Str("QR code does not contain valid identity data")]
  ELSE [isValid |-> TRUE, error |-> Undef]

QRKnownFields ==
  <<"name", "displayName", "fullName", "email", "emailAddress", "phone",
    "phoneNumber", "mobile", "id", "identifier", "userId">>

\* QRScannerService.extractAdditionalData
extractAdditionalData(parsed) ==
  CHOOSE out \in
    {IF Len(additionalData.k) > 0 THEN additionalData ELSE Undef
     : additionalData \in {CopyUnknown(EmptyObj, parsed, QRKnownFields, 1)}} : TRUE

\* The first place p > 1 with "<" and no "<" before it: /^([^<]+)</
NameMatch(data) ==
  LET p == IndexOf(data, "<") IN
  IF p > 1 THEN Str(Trim(SubSeq(data, 1, p - 1))) ELSE Undef

\* The leftmost "<", one or more characters other than ">", then ">": /<([^>]+)>/
EmailMatch(data) ==
  LET starts == {p \in 1..Len(data) :
                   /\ CharAt(data, p) = "<"
                   /\ CharAt(data, p + 1) \notin {"", ">"}
                   /\ \E q \in (p + 2)..Len(data) : CharAt(data, q) = ">"}
  IN IF starts = {} THEN Undef
     ELSE LET p == SetMin(starts)
              q == SetMin({j \in (p + 2)..Len(data) : CharAt(data, j) = ">"})
          IN Str(Trim(SubSeq(data, p + 1, q - 1)))

parseEmailFormat(data) ==
  IF Includes(data, "<") /\ Includes(data, ">")
    THEN Obj(<<"name", "email">>, <<NameMatch(data), EmailMatch(data)>>)
    ELSE Obj(<<"email">>, <<Str(Trim(data))>>)

parseUserFormat(data) == parseEmailFormat(data)

parseStringFormat(data) ==
  IF Includes(data, "identity:") THEN parseEmailFormat(Replace(data, "identity:", ""))
  ELSE IF Includes(data, "user:") THEN parseUserFormat(Replace(data, "user:", ""))
  ELSE IF Includes(data, "@") THEN parseEmailFormat(data)
  ELSE Obj(<<"identifier">>, <<Str(data)>>)

parseQRData(data) ==
  CHOOSE out \in
    {IF ~parsed.ok THEN parseStringFormat(data)
     ELSE IF IsObjectType(parsed.val)
       THEN Obj(<<"name", "email", "phone", "identifier", "additionalData">>,
                <<Or(Or(Get(parsed.val, "name"), Get(parsed.val, "displayName")),
                     Get(parsed.val, "fullName")),
                  Or(Get(parsed.val, "email"), Get(parsed.val, "emailAddress")),
                  Or(Or(Get(parsed.val, "phone"), Get(parsed.val, "phoneNumber")),
                     Get(parsed.val, "mobile")),
                  Or(Or(Get(parsed.val, "id"), Get(parsed.val, "identifier")),
                     Get(parsed.val, "userId")),
                  extractAdditionalData(parsed.val)>>)
     ELSE EmptyObj
     : parsed \in {JSONparse(data)}} : TRUE

----------------------------------------------------------------------------
(* AnonIdentityService: the functions that need no wallet *)

\* obj.type.includes('VerifiableCredential')
ArrayIncludes(arr, x) == \E i \in 1..Len(arr.v) : StrictEq(arr.v[i], x)

isVerifiableCredentialAnyIssuer(obj) ==
  /\ Truthy(obj)
  /\ IsObjectType(obj)
  /\ Truthy(Get(obj, "@context"))
  /\ Truthy(Get(obj, "type"))
  /\ IsArr(Get(obj, "type"))
  /\ ArrayIncludes(Get(obj, "type"), Str("VerifiableCredential"))
  /\ Truthy(Get(obj, "credentialSubject"))
  /\ Truthy(Get(obj, "issuanceDate"))

isVerifiableCredential(obj) ==
  /\ Truthy(obj)
  /\ IsObjectType(obj)
  /\ Truthy(Get(obj, "@context"))
  /\ Truthy(Get(obj, "type"))
  /\ IsArr(Get(obj, "type"))
  /\ ArrayIncludes(Get(obj, "type"), Str("VerifiableCredential"))
  /\ Truthy(Get(obj, "credentialSubject"))
  /\ Truthy(Get(obj, "issuer"))
  /\ Truthy(Get(obj, "issuanceDate"))

\* The credential found in the text, or Null.  Reading parsed.credential of
\* the JSON value null throws, which the catch turns into null as well.
parseCredentialFromQR(qrData) ==
  CHOOSE out \in
    {IF ~parsed.ok THEN Null
     ELSE IF isVerifiableCredential(parsed.val) THEN parsed.val
     ELSE IF ~CanRead(parsed.val) THEN Null
     ELSE IF Truthy(Get(parsed.val, "credential"))
             /\ isVerifiableCredential(Get(parsed.val, "credential"))
       THEN Get(parsed.val, "credential")
     ELSE Null
     : parsed \in {JSONparse(qrData)}} : TRUE

SubjectKnownFields ==
  <<"id", "givenName", "name", "fullName", "email", "emailAddress", "phone",
    "phoneNumber", "mobile", "dateOfBirth", "dob", "address", "streetAddress">>

extractAdditionalAttributes(subject) ==
  CHOOSE out \in
    {IF Len(additionalData.k) > 0 THEN additionalData ELSE Undef
     : additionalData \in {CopyUnknown(EmptyObj, subject, SubjectKnownFields, 1)}} : TRUE

\* A subject that is undefined or null makes the reads throw; the catch
\* returns {}.
extractIdentityFromCredential(credential) ==
  CHOOSE out \in
    {IF ~CanRead(subject) THEN EmptyObj
     ELSE Obj(<<"name", "email", "phone", "dateOfBirth", "address", "additionalData">>,
              <<Or(Or(Get(subject, "givenName"), Get(subject, "name")),
                   Get(subject, "fullName")),
                Or(Get(subject, "email"), Get(subject, "emailAddress")),
                Or(Or(Get(subject, "phone"), Get(subject, "phoneNumber")),
                   Get(subject, "mobile")),
                Or(Get(subject, "dateOfBirth"), Get(subject, "dob")),
                Or(Get(subject, "address"), Get(subject, "streetAddress")),
                extractAdditionalAttributes(subject)>>)
     : subject \in {Get(credential, "credentialSubject")}} : TRUE

----------------------------------------------------------------------------
(* The texts a scan can deliver *)

\* The object with the given <<key, value>> pairs, in their order.
ObjOf(pairs) ==
  Obj([i \in 1..Len(pairs) |-> pairs[i][1]], [i \in 1..Len(pairs) |-> pairs[i][2]])

NameFields ==
  { <<>>,
    << <<"name", Str("Jane Doe")>> >>,
    << <<"displayName", Str("Jay Dee")>> >>,
    << <<"fullName", Str("Jane Q Doe")>> >>,
    << <<"name", Str("")>>, <<"fullName", Str("Jane Q Doe")>> >>,
    << <<"displayName", Str("Jay Dee")>>, <<"name", Str("Jane Doe")>> >> }
EmailFields ==
  { <<>>,
    << <<"email", Str("jane@x.com")>> >>,
    << <<"emailAddress", Str("jd@y.org")>> >>,
    << <<"emailAddress", Str("jd@y.org")>>, <<"email", Null>> >> }
IdFields ==
  { <<>>,
    << <<"id", Str("u-1")>> >>,
    << <<"identifier", Str("ident-2")>> >>,
    << <<"userId", Num("3")>> >>,
    << <<"id", Num("0")>>, <<"userId", Num("3")>> >> }
ExtraFields ==
  { <<>>,
    << <<"dept", Str("Eng")>> >>,
    << <<"mobile", Str("5551234567")>>, <<"tags", Arr(<<Str("a")>>)>> >> }

QRObjectPayloads ==
  {JSONstringify(ObjOf(n \o e \o i \o x)) :
     n \in NameFields, e \in EmailFields, i \in IdFields, x \in ExtraFields}

\* Texts JSON.parse accepts that are not objects.
QRPrimitivePayloads ==
  {"1234567890", "-42", "0", "true", "false", "null", "\"quoted-text\"",
   "\"a@b in quotes\"", "[1,2,3,4,5]", "[]", " 1234567890 "}

\* Texts JSON.parse rejects.
QRTextPayloads ==
  {"", "   ", "short", "some-random-identifier", "invalid json {", "{name:1}",
   "identity:john.doe@example.com", "user:John Doe <john.doe@example.com>",
   "user:identity:x", "john@x.com", "  john@x.com  ",
   "John Doe <john@x.com>", "<john@x.com> John", "<>john@x.com", "a<b@c",
   "a>b<c@d", "x <<j@x.com>>", "1234567890.5", "0123456789"}

BaseCredential ==
  << <<"@context", Arr(<<Str("https://www.w3.org/2018/credentials/v1")>>)>>,
     <<"type", Arr(<<Str("VerifiableCredential"), Str("IdCard")>>)>>,
     <<"credentialSubject",
       ObjOf(<< <<"id", Str("did:ex:1")>>, <<"givenName", Str("Al")>>,
                <<"email", Str("al@x.com")>>, <<"role", Str("dev")>> >>)>>,
     <<"issuer", Str("did:ex:issuer")>>,
     <<"issuanceDate", Str("2024-01-01")>> >>

\* BaseCredential with the field at place i replaced or, for Undef, left out.
WithField(i, val) ==
  IF val = Undef
    THEN SelectIdx(BaseCredential, (1..Len(BaseCredential)) \ {i})
    ELSE [BaseCredential EXCEPT ![i] = <<BaseCredential[i][1], val>>]

FieldVariants ==
  << {Undef, Str("ctx"), Str(""), Arr(<<>>)},
     {Undef, Str("VerifiableCredential"), Arr(<<Str("IdCard")>>),
      Arr(<<Str("VerifiableCredential")>>), Arr(<<>>)},
     {Undef, Null, Str(""), Str("abc"), Num("0"), EmptyObj},
     {Undef, Str(""), ObjOf(<< <<"id", Str("did:ex:issuer")>> >>)},
     {Undef, Str(""), Num("2024")} >>

CredentialObjects ==
  {ObjOf(BaseCredential)} \cup
  {ObjOf(WithField(i, val)) : <<i, val>> \in
     UNION {{<<i, val>> : val \in FieldVariants[i]} : i \in 1..Len(FieldVariants)}}

QRCredentialPayloads ==
  {JSONstringify(c) : c \in CredentialObjects} \cup
  {JSONstringify(ObjOf(<< <<"credential", c>> >>)) : c \in CredentialObjects}

\* Objects and a credential subject with a key named __proto__, which
\* JSON.parse makes an own key like any other.
QRProtoPayloads ==
  {"{\"name\":\"Jane Doe\",\"__proto__\":{\"x\":1}}",
   "{\"id\":\"u-1\",\"dept\":\"Eng\",\"__proto__\":\"p\"}",
   JSONstringify(ObjOf(WithField(3,
     ObjOf(<< <<"name", Str("Al")>>, <<"__proto__", ObjOf(<< <<"x", Num("1")>> >>)>> >>))))}

QRPayloads ==
  QRObjectPayloads \cup QRPrimitivePayloads \cup QRTextPayloads
    \cup QRCredentialPayloads \cup QRProtoPayloads

----------------------------------------------------------------------------
(* The functions that take a scanned text, called one at a time *)

NoCall == "none"
QrIdle == qrCall = NoCall /\ qrRaw = "" /\ qrOut = NoResult

\* How a call ended.
Returned(value) == [threw |-> FALSE, value |-> value]

\* What each function returns for each text, computed once.
QRResults ==
  [raw \in QRPayloads |->
     [parseQRData |-> parseQRData(raw),
      validateQRData |-> validateQRData(raw),
      parseCredentialFromQR |-> parseCredentialFromQR(raw)]]

\* The texts in which a credential is found, and what is extracted from it.
CredentialTexts == {raw \in QRPayloads : QRResults[raw].parseCredentialFromQR # Null}
ExtractResults ==
  [raw \in CredentialTexts |->
     extractIdentityFromCredential(QRResults[raw].parseCredentialFromQR)]

\* parseQRData catches what JSON.parse throws; the string methods it calls
\* outside the try block are total on strings.
ParseQRData ==
  /\ \E raw \in QRPayloads :
       /\ qrCall' = "parseQRData"
       /\ qrRaw' = raw
       /\ qrOut' = Returned(QRResults[raw].parseQRData)
  /\ UNCHANGED notQr

ValidateQRData ==
  /\ \E raw \in QRPayloads :
       /\ qrCall' = "validateQRData"
       /\ qrRaw' = raw
       /\ qrOut' = Returned(QRResults[raw].validateQRData)
  /\ UNCHANGED notQr

ParseCredentialFromQR ==
  /\ \E raw \in QRPayloads :
       /\ qrCall' = "parseCredentialFromQR"
       /\ qrRaw' = raw
       /\ qrOut' = Returned(QRResults[raw].parseCredentialFromQR)
  /\ UNCHANGED notQr

\* extractIdentityFromCredential of the credential found in a text.
ExtractIdentityFromCredential ==
  /\ \E raw \in CredentialTexts :
       /\ qrCall' = "extractIdentityFromCredential"
       /\ qrRaw' = raw
       /\ qrOut' = Returned(ExtractResults[raw])
  /\ UNCHANGED notQr

----------------------------------------------------------------------------
(* Dates and the storage document *)

\* new Date() read at clock: a value of its own type.
DateAt(clock) == [t |-> "date", v |-> clock]

\* Date.prototype.toISOString, and new Date(text) of such a text.
toISOString(d) == "T" \o ToString(d.v)
DateFrom(text) ==
  IF \E c \in Clocks : toISOString(DateAt(c)) = text
    THEN DateAt(CHOOSE c \in Clocks : toISOString(DateAt(c)) = text)
    ELSE [t |-> "date", v |-> -1]

\* JSON.parse(JSON.stringify(x)): a member whose value is undefined is
\* dropped, an undefined element becomes null, a Date becomes its ISO text.
RECURSIVE JSONclone(_)
JSONclone(x) ==
  CASE x.t = "object" ->
         CHOOSE out \in
           {Obj([j \in 1..Len(keep) |-> x.k[keep[j]]],
                [j \in 1..Len(keep) |-> JSONclone(x.v[keep[j]])])
            : keep \in {SelectIdx([i \in 1..Len(x.k) |-> i],
                                  {i \in 1..Len(x.k) : x.v[i].t # "undefined"})}} : TRUE
    [] x.t = "array" ->
         Arr([i \in 1..Len(x.v) |->
                IF x.v[i].t = "undefined" THEN Null ELSE JSONclone(x.v[i])])
    [] x.t = "date" -> Str(toISOString(x))
    [] OTHER -> x

NoItem == [t |-> "none"]

\* A save that keeps what was stored under another id since the load.
SavedItemMerging(identities, clock) ==
  LET held == IF stored = NoItem THEN <<>> ELSE Get(stored, "identities").v
      kept == SelectIdx(held, {i \in 1..Len(held) :
                                 \A j \in 1..Len(identities) :
                                   Get(identities[j], "id") # Get(held[i], "id")})
  IN JSONclone(Obj(<<"identities", "lastUpdated">>,
                   <<Arr(kept \o identities), DateAt(clock)>>))

\* IdentityStorageService.saveIdentities: the item as setItem leaves it.
SavedItem(identities, clock) ==
  JSONclone(Obj(<<"identities", "lastUpdated">>, <<Arr(identities), DateAt(clock)>>))

\* IdentityStorageService.loadIdentities of the item getItem gave.
LoadedIdentities(item) ==
  IF item = NoItem THEN <<>>
  ELSE LET list == Get(item, "identities").v IN
       [i \in 1..Len(list) |->
          Put(list[i], "dateAdded", DateFrom(Get(list[i], "dateAdded").v))]

\* identities.findIndex(identity => identity.id === id); 0 for -1.
FindIndex(identities, id) ==
  LET hits == {i \in 1..Len(identities) : StrictEq(Get(identities[i], "id"), id)} IN
  IF hits = {} THEN 0 ELSE SetMin(hits)

\* generateId(): a text no earlier call gave.
generateId(n) == "id" \o ToString(n)

\* addIdentity's newIdentity
NewIdentity(identity, n, clock) ==
  Put(Put(Assign(EmptyObj, identity), "id", Str(generateId(n))),
      "dateAdded", DateAt(clock))

----------------------------------------------------------------------------
(* IdentityFetchService: reconciliation *)

\* The filter of fetchAndPopulateIdentity
IsRelated(cred, existing) ==
  LET subject == Get(cred, "credentialSubject") IN
  \/ StrictEq(Get(subject, "id"), Get(Get(existing, "additionalData"), "did"))
  \/ StrictEq(Get(subject, "email"), Get(existing, "email"))
  \/ StrictEq(Get(subject, "name"), Get(existing, "name"))
  \/ StrictEq(Get(subject, "givenName"), Get(existing, "name"))

\* The filter of createVerifiablePresentation
IsIdentityCredential(cred, identity) ==
  LET subject == Get(cred, "credentialSubject") IN
  \/ StrictEq(Get(subject, "id"), Get(Get(identity, "additionalData"), "did"))
  \/ StrictEq(Get(subject, "email"), Get(identity, "email"))
  \/ StrictEq(Get(subject, "name"), Get(identity, "name"))

relatedCredentials(credentials, existing) ==
  SelectIdx(credentials,
            {i \in 1..Len(credentials) : IsRelated(credentials[i], existing)})

identityCredentials(credentials, identity) ==
  SelectIdx(credentials,
            {i \in 1..Len(credentials) : IsIdentityCredential(credentials[i], identity)})

TakeLast(merged, extracted, f) ==
  IF Truthy(Get(extracted, f)) THEN Put(merged, f, Get(extracted, f)) ELSE merged

\* if (extracted.f && !merged.f) {merged.f = extracted.f;}
TakeFirst(merged, extracted, f) ==
  IF Truthy(Get(extracted, f)) /\ ~Truthy(Get(merged, f))
    THEN Put(merged, f, Get(extracted, f))
    ELSE merged

\* One round of mergeCredentialData's loop
MergeStep(merged, extracted) ==
  CHOOSE out \in
    {IF Truthy(Get(extracted, "additionalData"))
       THEN Put(m3, "additionalData",
                Assign(Get(m3, "additionalData"), Get(extracted, "additionalData")))
       ELSE m3
     : m3 \in {TakeFirst(TakeFirst(TakeFirst(merged, extracted, "name"),
                                   extracted, "email"), extracted, "phone")}} : TRUE

RECURSIVE MergeFrom(_, _, _)
MergeFrom(merged, credentials, i) ==
  IF i > Len(credentials) THEN merged
  ELSE CHOOSE out \in
         {MergeFrom(m2, credentials, i + 1) :
            m2 \in {MergeStep(merged, extractIdentityFromCredential(credentials[i]))}} : TRUE

mergeCredentialData(credentials) ==
  MergeFrom(Obj(<<"additionalData">>, <<EmptyObj>>), credentials, 1)

\* relatedCredentials.map(cred => ({id, issuer, issuanceDate, type}))
CredentialSummaries(credentials) ==
  Arr([i \in 1..Len(credentials) |->
         Obj(<<"id", "issuer", "issuanceDate", "type">>,
             <<Get(credentials[i], "id"), Get(credentials[i], "issuer"),
               Get(credentials[i], "issuanceDate"), Get(credentials[i], "type")>>)])

\* The additionalData of updatedIdentity
UpdatedAdditionalData(existing, populatedData, related, clock) ==
  Put(Put(Put(Assign(Assign(EmptyObj, Get(existing, "additionalData")),
                     Get(populatedData, "additionalData")),
              "credentialCount", Num(ToString(Len(related)))),
          "lastFetched", Str(toISOString(DateAt(clock)))),
      "credentials", CredentialSummaries(related))

\* The updatedIdentity of fetchAndPopulateIdentity
UpdatedIdentity(existing, related, clock) ==
  CHOOSE out \in
    {Put(Put(Put(Put(Put(Assign(EmptyObj, existing),
                         "name", Or(Get(populatedData, "name"), Get(existing, "name"))),
                     "email", Or(Get(populatedData, "email"), Get(existing, "email"))),
                 "phone", Or(Get(populatedData, "phone"), Get(existing, "phone"))),
             "isVerified", Bool(TRUE)),
         "additionalData", UpdatedAdditionalData(existing, populatedData, related, clock))
     : populatedData \in {mergeCredentialData(related)}} : TRUE

\* IdentityFetchService.extractAdditionalData
RemoteKnownFields ==
  <<"name", "displayName", "email", "emailAddress", "phone", "phoneNumber">>
extractAdditionalDataRemote(data) == CopyUnknown(EmptyObj, data, RemoteKnownFields, 1)

\* The newIdentity fetchFromRemoteSource makes of a credential
RemoteCredentialIdentity(data, credential, url) ==
  CHOOSE out \in
    {Obj(<<"name", "email", "phone", "qrData", "isVerified", "additionalData">>,
         <<Or(Get(identityData, "name"), Str("Remote Identity")),
           Get(identityData, "email"),
           Get(identityData, "phone"),
           Str(JSONstringify(data)),
           Bool(TRUE),
           Put(Put(Put(Put(Put(Assign(EmptyObj, Get(identityData, "additionalData")),
                               "source", Str("remote")),
                           "sourceUrl", Str(url)),
                       "credentialId", Get(credential, "id")),
                   "issuer", Get(credential, "issuer")),
               "issuanceDate", Get(credential, "issuanceDate"))>>)
     : identityData \in {extractIdentityFromCredential(credential)}} : TRUE

RemotePlainIdentityVerified(data, url) ==
  Obj(<<"name", "email", "phone", "qrData", "isVerified", "additionalData">>,
      <<Or(Or(Get(data, "name"), Get(data, "displayName")), Str("Remote Identity")),
        Or(Get(data, "email"), Get(data, "emailAddress")),
        Or(Get(data, "phone"), Get(data, "phoneNumber")),
        Str(JSONstringify(data)),
        Bool(TRUE),
        Obj(<<"source", "sourceUrl">>, <<Str("remote"), Str(url)>>)>>)

\* The newIdentity fetchFromRemoteSource makes of plain data
RemotePlainIdentity(data, url) ==
  Obj(<<"name", "email", "phone", "qrData", "isVerified", "additionalData">>,
      <<Or(Or(Get(data, "name"), Get(data, "displayName")), Str("Remote Identity")),
        Or(Get(data, "email"), Get(data, "emailAddress")),
        Or(Get(data, "phone"), Get(data, "phoneNumber")),
        Str(JSONstringify(data)),
        Bool(FALSE),
        Assign(Obj(<<"source", "sourceUrl">>, <<Str("remote"), Str(url)>>),
               extractAdditionalDataRemote(data))>>)

----------------------------------------------------------------------------
(* useQRScanner: the record processQRCode builds *)

WalletDID == "did:test:123"

\* newIdentity for a text in which a credential was found
ScannedCredentialIdentity(data, credential) ==
  CHOOSE out \in
    {Obj(<<"name", "email", "phone", "qrData", "isVerified", "additionalData">>,
         <<Or(Or(Or(Get(identityData, "name"), Get(identityData, "email")),
                 Get(identityData, "identifier")), Str("Unknown")),
           Get(identityData, "email"),
           Get(identityData, "phone"),
           Str(data),
           Bool(TRUE),
           Assign(Assign(EmptyObj, Get(identityData, "additionalData")),
                  Obj(<<"credentialId", "issuer", "issuanceDate", "did">>,
                      <<Get(credential, "id"), Get(credential, "issuer"),
                        Get(credential, "issuanceDate"), Str(WalletDID)>>))>>)
     : identityData \in {extractIdentityFromCredential(credential)}} : TRUE

\* newIdentity for a text in which none was found
ScannedPlainIdentity(data) ==
  CHOOSE out \in
    {Obj(<<"name", "email", "phone", "qrData", "isVerified", "additionalData">>,
         <<Or(Or(Or(Get(identityData, "name"), Get(identityData, "email")),
                 Get(identityData, "identifier")), Str("Unknown")),
           Get(identityData, "email"),
           Get(identityData, "phone"),
           Str(data),
           Bool(FALSE),
           Assign(EmptyObj, Get(identityData, "additionalData"))>>)
     : identityData \in {parseQRData(data)}} : TRUE

----------------------------------------------------------------------------
(* What the system is given: scanned texts, remote responses, credentials *)

MaxTasks == 2
MaxCalls == 3

CredentialContext == Arr(<<Str("https://www.w3.org/2018/credentials/v1")>>)

\* Two credentials about one person that agree on the email, disagree on the
\* name, and both carry the attributes role and credentials.
CredentialA ==
  ObjOf(<< <<"@context", CredentialContext>>,
           <<"type", Arr(<<Str("VerifiableCredential")>>)>>,
           <<"id", Str("cred-a")>>,
           <<"issuer", Str("did:ex:issuer")>>,
           <<"issuanceDate", Str("2024-01-01")>>,
           <<"credentialSubject",
             ObjOf(<< <<"id", Str("did:ex:al")>>, <<"givenName", Str("Al")>>,
                      <<"email", Str("al@x.com")>>, <<"role", Str("dev")>>,
                      <<"credentials", Str("BSc")>> >>)>> >>)
CredentialB ==
  ObjOf(<< <<"@context", CredentialContext>>,
           <<"type", Arr(<<Str("VerifiableCredential"), Str("Staff")>>)>>,
           <<"id", Str("cred-b")>>,
           <<"issuer", Str("did:ex:employer")>>,
           <<"issuanceDate", Str("2024-02-02")>>,
           <<"credentialSubject",
             ObjOf(<< <<"name", Str("Alan")>>, <<"email", Str("al@x.com")>>,
                      <<"phone", Str("5551234567")>>, <<"role", Str("admin")>>,
                      <<"level", Num("3")>>, <<"credentials", Str("MD")>> >>)>> >>)
SystemCredentials == {CredentialA, CredentialB}

\* Plain data about the same person, and about another.
PlainAl ==
  ObjOf(<< <<"name", Str("Al")>>, <<"email", Str("al@x.com")>>,
           <<"phone", Str("5559999999")>>, <<"role", Str("guest")>> >>)
TextJohn == "user:John Doe <john@x.com>"

ScannedTexts ==
  {JSONstringify(CredentialA), JSONstringify(CredentialB), JSONstringify(PlainAl),
   TextJohn, "short"}

\* What the functions of a scan give for each text, computed once.
ScanTable ==
  [raw \in ScannedTexts |->
     CHOOSE out \in
       {[validation |-> validateQRData(raw),
         credential |-> credential,
         newIdentity |-> IF credential # Null
                           THEN ScannedCredentialIdentity(raw, credential)
                           ELSE ScannedPlainIdentity(raw)]
        : credential \in {parseCredentialFromQR(raw)}} : TRUE]

RemoteUrl == "https://ex.org/id"
HttpError == [ok |-> FALSE, status |-> "404", statusText |-> "Not Found", data |-> Undef]
HttpOk(data) == [ok |-> TRUE, status |-> "200", statusText |-> "OK", data |-> data]
RemoteResponses == {HttpError, HttpOk(CredentialB), HttpOk(PlainAl)}

\* What fetchFromRemoteSource makes of each response body, computed once.
RemoteTable ==
  [data \in {CredentialB, PlainAl} |->
     CHOOSE out \in
       {[credential |-> credential,
         newIdentity |-> IF credential # Null
                           THEN RemoteCredentialIdentity(data, credential, RemoteUrl)
                           ELSE RemotePlainIdentity(data, RemoteUrl)]
        : credential \in {parseCredentialFromQR(JSONstringify(data))}} : TRUE]

----------------------------------------------------------------------------
(* Calls in flight.  A call runs without interruption from one await of a   *)
(* collaborator (the wallet library, AsyncStorage, the module loader, the   *)
(* network) to the next; pc names the await it is suspended at.             *)

NoWallet == 0

IdleTask ==
  [op |-> "none", pc |-> "idle", id |-> "", data |-> "", attrs |-> <<>>,
   arg |-> Undef, existing |-> Undef, creds |-> <<>>, loaded |-> <<>>,
   list |-> <<>>, fresh |-> Undef, backed |-> FALSE, born |-> 0,
   outer |-> FALSE, todo |-> <<>>, updated |-> 0, errors |-> <<>>]

Slots == 1..MaxTasks
IdleSlots == {t \in Slots : tasks[t].pc = "idle"}
CanCall == calls < MaxCalls /\ IdleSlots # {}
FreeSlot == SetMin(IdleSlots)

NoReturn == [op |-> "none"]
\* The call returned value, or threw an Error with the message.
RetValue(tk, value) ==
  [op |-> tk.op, threw |-> FALSE, value |-> value, error |-> "",
   existing |-> tk.existing, creds |-> tk.creds, data |-> tk.data]
RetThrew(tk, message) ==
  [op |-> tk.op, threw |-> TRUE, value |-> Undef, error |-> message,
   existing |-> tk.existing, creds |-> tk.creds, data |-> tk.data]

Goto(t, tk) == tasks' = [tasks EXCEPT ![t] = tk] /\ lastReturn' = NoReturn
\* The call in slot t returns ret.  A call that refreshAllCredentials made
\* (outer) returns into its loop: the loop counts the result, then calls
\* fetchAndPopulateIdentity for the next record or returns its own results.
Finish(t, ret) ==
  LET tk == tasks[t] IN
  IF ~tk.outer
    THEN tasks' = [tasks EXCEPT ![t] = IdleTask] /\ lastReturn' = ret
    ELSE LET succeeded == ~ret.threw /\ ret.value.success
             updated == IF succeeded THEN tk.updated + 1 ELSE tk.updated
             errors ==
               IF succeeded THEN tk.errors
               ELSE Append(tk.errors,
                           [identityId |-> tk.id,
                            error |-> IF ret.threw THEN "Failed to refresh identity"
                                      ELSE IF ret.value.error = "" THEN "Unknown error"
                                      ELSE ret.value.error])
         IN IF tk.todo = <<>>
              THEN /\ tasks' = [tasks EXCEPT ![t] = IdleTask]
                   /\ lastReturn' =
                        RetValue([IdleTask EXCEPT !.op = "refreshAllCredentials"],
                                 [updated |-> updated, errors |-> errors])
              ELSE /\ tasks' = [tasks EXCEPT ![t] =
                                  [IdleTask EXCEPT
                                     !.op = "fetchAndPopulateIdentity",
                                     !.pc = "getById:getItem",
                                     !.id = Head(tk.todo), !.todo = Tail(tk.todo),
                                     !.outer = TRUE,
                                     !.updated = updated, !.errors = errors]]
                   /\ lastReturn' = ret

SysIdle ==
  /\ wallet = NoWallet /\ initialized = FALSE /\ walletCreds = <<>>
  /\ stored = NoItem /\ nextId = 1
  /\ scanError = Null /\ isScanning = FALSE
  /\ ctxIdentities = <<>> /\ ctxError = Null /\ ctxLoading = TRUE
  /\ tasks = [t \in Slots |-> IdleTask] /\ calls = 0 /\ lastReturn = NoReturn
  /\ inits = 0 /\ epoch = 0 /\ readyBorn = 0 /\ credBacked = {}

\* IdentityFetchResult
FetchResult(success, identity, error, warnings) ==
  [success |-> success, identity |-> identity, error |-> error, warnings |-> warnings]
Failure(error) == FetchResult(FALSE, Undef, error, <<>>)

WalletNotInitialized == "Wallet not initialized. Call initialize() first."
ScanFailed == "Failed to process QR code. Please try again."

\* isInitialized()
isInitialized == initialized /\ wallet # NoWallet

\* A catch block that hands the exception on.
CaughtRethrows(t, tk) ==
  Finish(t, RetThrew(tk, "Failed to save identities")) /\ UNCHANGED scanError

\* What the catch block of the running operation makes of an exception.
\* Sets tasks, lastReturn and scanError.
Caught(t, tk) ==
  CASE tk.op = "processQRCode" ->
         Finish(t, RetValue(tk, Undef)) /\ scanError' = Str(ScanFailed)
    [] tk.op = "fetchAndPopulateIdentity" ->
         /\ Finish(t, RetValue(tk, Failure("Failed to fetch and populate identity data")))
         /\ UNCHANGED scanError
    [] tk.op = "createVerifiablePresentation" ->
         /\ Finish(t, RetValue(tk, Failure("Failed to create verifiable presentation")))
         /\ UNCHANGED scanError
    [] tk.op = "fetchFromRemoteSource" ->
         /\ Finish(t, RetValue(tk, Failure("Failed to fetch from remote source")))
         /\ UNCHANGED scanError
    [] OTHER ->
         Finish(t, RetThrew(tk, "Failed to initialize identity service"))
         /\ UNCHANGED scanError

\* wallet.createVerifiablePresentation(credentialIds) of the library
WalletPresentation(held, credentialIds) ==
  Obj(<<"@context", "type", "verifiableCredential", "holder">>,
      <<CredentialContext, Arr(<<Str("VerifiablePresentation")>>),
        Arr(SelectIdx(held, {i \in 1..Len(held) :
                               InSeq(credentialIds, Or(Get(held[i], "id"), Str("")))})),
        Str(WalletDID)>>)

\* wallet.createSelectiveDisclosurePresentation(disclosureRequests) of the library
WalletSelectivePresentation ==
  Obj(<<"@context", "type", "verifiableCredential", "holder">>,
      <<CredentialContext, Arr(<<Str("VerifiablePresentation")>>), Arr(<<>>),
        Str(WalletDID)>>)

\* identityCredentials.map(cred => cred.id || '')
CredentialIds(credentials) ==
  [i \in 1..Len(credentials) |-> Or(Get(credentials[i], "id"), Str(""))]

NoMatchResultVerified(existing) ==
  FetchResult(TRUE, Put(existing, "isVerified", Bool(TRUE)), Undef,
              <<"No verifiable credentials found for this identity">>)

\* The result of fetchAndPopulateIdentity when no credential is related
NoMatchResult(existing) ==
  FetchResult(TRUE, existing, Undef,
              <<"No verifiable credentials found for this identity">>)

\* The code that follows `if (!isInitialized()) await initialize()` in the
\* running operation, up to its next await.  w, held and err are this.wallet,
\* the wallets' credentials and the hook's error as they are when it runs.
\* Sets tasks, lastReturn, walletCreds, scanError and ctxError.
AfterInitialize(t, tk, w, held, err) ==
  CASE tk.op = "initialize" ->
         /\ Finish(t, RetValue(tk, Undef))
         /\ walletCreds' = held /\ UNCHANGED <<scanError, ctxError>>
    [] tk.op \in {"fetchAndPopulateIdentity", "createVerifiablePresentation"} ->
         /\ walletCreds' = held /\ UNCHANGED ctxError
         /\ IF w = NoWallet THEN Caught(t, tk)
            ELSE /\ Goto(t, [tk EXCEPT !.pc = "wallet.getAllCredentials",
                                       !.creds = held[w]])
                 /\ UNCHANGED scanError
    [] tk.op = "processQRCode" ->
         IF ScanTable[tk.data].credential # Null
           THEN /\ UNCHANGED ctxError
                /\ IF w = NoWallet
                     THEN Caught(t, tk) /\ walletCreds' = held
                     ELSE /\ walletCreds' =
                               [held EXCEPT ![w] = Append(@, ScanTable[tk.data].credential)]
                          /\ Goto(t, [tk EXCEPT !.pc = "wallet.storeCredential"])
                          /\ scanError' = err
           ELSE /\ walletCreds' = held
                /\ ctxError' = Null
                /\ scanError' = err
                /\ Goto(t, [tk EXCEPT !.pc = "add:getItem",
                                      !.fresh = ScanTable[tk.data].newIdentity])

\* The call of initialize() by a running operation: the guard, then the first
\* await.
\* Sets tasks, lastReturn, walletCreds, scanError and ctxError.
CallInitialize(t, tk, err) ==
  IF isInitialized
    THEN AfterInitialize(t, tk, wallet, walletCreds, err)
    ELSE /\ Goto(t, [tk EXCEPT !.pc = "getAnonIdentityModule", !.born = epoch])
         /\ UNCHANGED <<walletCreds, ctxError>>
         /\ scanError' = err

----------------------------------------------------------------------------
(* AnonIdentityService: the operations *)

Called == calls' = calls + 1
Started(op) == [IdleTask EXCEPT !.op = op]

Initialize ==
  /\ CanCall /\ Called
  /\ CallInitialize(FreeSlot, Started("initialize"), scanError)
  /\ UNCHANGED <<wallet, initialized, storeVars, isScanning, ctxIdentities, ctxLoading, histVars,
                 notSys, now>>

\* await getAnonIdentityModule() settles.
ModuleLoaded(t) ==
  /\ tasks[t].pc = "getAnonIdentityModule"
  /\ \/ Goto(t, [tasks[t] EXCEPT !.pc = "UserWallet.create"]) /\ UNCHANGED scanError
     \/ Caught(t, tasks[t])
  /\ UNCHANGED <<walletVars, storeVars, isScanning, ctxIdentities, ctxLoading, ctxError, calls,
                 histVars, notSys, now>>

\* await this.UserWallet.create() settles: on success the new wallet object is
\* assigned to this.wallet and initialized is set, whatever they were.
WalletCreated(t) ==
  /\ tasks[t].pc = "UserWallet.create"
  /\ \/ /\ wallet' = Len(walletCreds) + 1
        /\ initialized' = TRUE
        /\ inits' = IF tasks[t].born = epoch THEN inits + 1 ELSE inits
        /\ readyBorn' = tasks[t].born
        /\ AfterInitialize(t, tasks[t], Len(walletCreds) + 1,
                           Append(walletCreds, <<>>), scanError)
        /\ UNCHANGED <<epoch, credBacked>>
     \/ /\ Caught(t, tasks[t])
        /\ UNCHANGED <<walletVars, ctxError, histVars>>
  /\ UNCHANGED <<storeVars, isScanning, ctxIdentities, ctxLoading, calls, notSys, now>>

Reset ==
  /\ calls < MaxCalls /\ Called
  /\ wallet' = NoWallet
  /\ initialized' = FALSE
  /\ inits' = 0
  /\ epoch' = epoch + 1
  /\ lastReturn' = RetValue(Started("reset"), Undef)
  /\ UNCHANGED <<walletCreds, storeVars, uiVars, tasks, readyBorn, credBacked,
                 notSys, now>>

\* What a call of the service leaves alone when all it does is return or
\* start waiting for the wallet.
WalletCallFrame ==
  UNCHANGED <<wallet, initialized, storeVars, uiVars, histVars, notSys, now>>

GetWalletDIDUnguarded ==
  /\ CanCall /\ Called
  /\ Finish(FreeSlot,
            IF wallet = NoWallet
              THEN RetThrew(Started("getWalletDID"),
                            "Cannot read properties of null (reading 'getDID')")
              ELSE RetValue(Started("getWalletDID"), Str(WalletDID)))
  /\ UNCHANGED walletCreds
  /\ WalletCallFrame

GetWalletDID ==
  /\ CanCall /\ Called
  /\ Finish(FreeSlot,
            IF wallet = NoWallet
              THEN RetThrew(Started("getWalletDID"), WalletNotInitialized)
              ELSE RetValue(Started("getWalletDID"), Str(WalletDID)))
  /\ UNCHANGED walletCreds
  /\ WalletCallFrame

StoreCredential ==
  /\ CanCall /\ Called
  /\ \E credential \in SystemCredentials :
       IF wallet = NoWallet
         THEN /\ Finish(FreeSlot, RetThrew(Started("storeCredential"), WalletNotInitialized))
              /\ UNCHANGED walletCreds
         ELSE /\ walletCreds' = [walletCreds EXCEPT ![wallet] = Append(@, credential)]
              /\ Goto(FreeSlot, [Started("storeCredential") EXCEPT
                                   !.pc = "wallet.storeCredential"])
  /\ WalletCallFrame

GetAllCredentials ==
  /\ CanCall /\ Called
  /\ IF wallet = NoWallet
       THEN Finish(FreeSlot, RetThrew(Started("getAllCredentials"), WalletNotInitialized))
       ELSE Goto(FreeSlot, [Started("getAllCredentials") EXCEPT
                              !.pc = "wallet.getAllCredentials",
                              !.creds = walletCreds[wallet]])
  /\ UNCHANGED walletCreds
  /\ WalletCallFrame

PresentationRequests == {<<Str("cred-a")>>, <<Str("cred-a"), Str("cred-b")>>}

CreatePresentation ==
  /\ CanCall /\ Called
  /\ \E credentialIds \in PresentationRequests :
       IF wallet = NoWallet
         THEN Finish(FreeSlot, RetThrew(Started("createPresentation"), WalletNotInitialized))
         ELSE Goto(FreeSlot, [Started("createPresentation") EXCEPT
                                !.pc = "wallet.createPresentation",
                                !.fresh = WalletPresentation(walletCreds[wallet],
                                                             credentialIds)])
  /\ UNCHANGED walletCreds
  /\ WalletCallFrame

CreateSelectiveDisclosurePresentation ==
  /\ CanCall /\ Called
  /\ IF wallet = NoWallet
       THEN Finish(FreeSlot, RetThrew(Started("createSelectiveDisclosurePresentation"),
                                      WalletNotInitialized))
       ELSE Goto(FreeSlot, [Started("createSelectiveDisclosurePresentation") EXCEPT
                              !.pc = "wallet.createPresentation",
                              !.fresh = WalletSelectivePresentation])
  /\ UNCHANGED walletCreds
  /\ WalletCallFrame

\* The guard, then getWalletDID(), then getAllCredentials() up to its await.
GetIdentityData ==
  /\ CanCall /\ Called
  /\ IF wallet = NoWallet
       THEN Finish(FreeSlot, RetThrew(Started("getIdentityData"), WalletNotInitialized))
       ELSE Goto(FreeSlot, [Started("getIdentityData") EXCEPT
                              !.pc = "wallet.getAllCredentials",
                              !.creds = walletCreds[wallet]])
  /\ UNCHANGED walletCreds
  /\ WalletCallFrame

----------------------------------------------------------------------------
(* The awaits of the wallet library settle *)

\* What a step leaves alone when all it does is move or end its call.
StepFrame ==
  UNCHANGED <<walletVars, storeVars, isScanning, ctxIdentities, ctxLoading, ctxError, calls,
              histVars, notSys, now>>

\* const credentials = await this.wallet.getAllCredentials() returns.
CredentialsReturned(t) ==
  LET tk == tasks[t] IN
  /\ tk.pc = "wallet.getAllCredentials"
  /\ CASE tk.op = "getAllCredentials" ->
            Finish(t, RetValue(tk, Arr(tk.creds))) /\ UNCHANGED scanError
       [] tk.op = "getIdentityData" ->
            /\ Finish(t, RetValue(tk, Obj(<<"did", "credentials", "presentations">>,
                                          <<Str(WalletDID), Arr(tk.creds), Arr(<<>>)>>)))
            /\ UNCHANGED scanError
       [] tk.op = "fetchAndPopulateIdentity" ->
            IF \E i \in 1..Len(tk.creds) : ~CanRead(Get(tk.creds[i], "credentialSubject"))
              THEN Caught(t, tk)
            ELSE IF Len(relatedCredentials(tk.creds, tk.existing)) = 0
              THEN Finish(t, RetValue(tk, NoMatchResult(tk.existing)))
                   /\ UNCHANGED scanError
            ELSE /\ Goto(t, [tk EXCEPT
                      !.pc = "update:getItem",
                      !.backed = TRUE,
                      !.arg = UpdatedIdentity(tk.existing,
                                relatedCredentials(tk.creds, tk.existing), now)])
                 /\ UNCHANGED scanError
       [] tk.op = "createVerifiablePresentation" ->
            IF \E i \in 1..Len(tk.creds) : ~CanRead(Get(tk.creds[i], "credentialSubject"))
              THEN Caught(t, tk)
            ELSE IF Len(identityCredentials(tk.creds, tk.existing)) = 0
              THEN /\ Finish(t, RetValue(tk,
                        Failure("No verifiable credentials found for this identity")))
                   /\ UNCHANGED scanError
            ELSE IF wallet = NoWallet THEN Caught(t, tk)
            ELSE /\ Goto(t, [tk EXCEPT
                      !.pc = "wallet.createPresentation",
                      !.fresh = IF Len(tk.attrs) > 0
                                  THEN WalletSelectivePresentation
                                  ELSE WalletPresentation(walletCreds[wallet],
                                         CredentialIds(identityCredentials(tk.creds,
                                                                           tk.existing)))])
                 /\ UNCHANGED scanError
  /\ StepFrame

\* await this.wallet.createVerifiablePresentation(...) or
\* createSelectiveDisclosurePresentation(...) returns.
PresentationReturned(t) ==
  LET tk == tasks[t] IN
  /\ tk.pc = "wallet.createPresentation"
  /\ IF tk.op = "createVerifiablePresentation"
       THEN Finish(t, RetValue(tk, [success |-> TRUE, presentation |-> tk.fresh]))
       ELSE Finish(t, RetValue(tk, tk.fresh))
  /\ UNCHANGED scanError
  /\ StepFrame

\* await this.wallet.storeCredential(credential) returns.
CredentialStored(t) ==
  LET tk == tasks[t] IN
  /\ tk.pc = "wallet.storeCredential"
  /\ CASE tk.op = "storeCredential" ->
            Finish(t, RetValue(tk, Undef)) /\ UNCHANGED <<scanError, ctxError>>
       [] tk.op = "processQRCode" ->
            IF wallet = NoWallet
              THEN Caught(t, tk) /\ UNCHANGED ctxError
              ELSE /\ ctxError' = Null
                   /\ Goto(t, [tk EXCEPT !.pc = "add:getItem", !.backed = TRUE,
                                         !.fresh = ScanTable[tk.data].newIdentity])
                   /\ UNCHANGED scanError
       [] tk.op = "fetchFromRemoteSource" ->
            /\ Goto(t, [tk EXCEPT !.pc = "add:getItem", !.backed = TRUE,
                                  !.fresh = RemoteTable[tk.arg].newIdentity])
            /\ UNCHANGED <<scanError, ctxError>>
  /\ UNCHANGED <<walletVars, storeVars, isScanning, ctxIdentities, ctxLoading, calls, histVars,
                 notSys, now>>

----------------------------------------------------------------------------
(* IdentityStorageService: the operations *)

IdentityIds == {generateId(1), generateId(2)}

DirectIdentities ==
  {ObjOf(<< <<"name", Str("Al")>>, <<"email", Str("al@home.org")>>,
            <<"qrData", Str("al")>>, <<"isVerified", Bool(FALSE)>> >>),
   ObjOf(<< <<"name", Str("Bo")>>, <<"phone", Str("5550000000")>>,
            <<"qrData", Str("bo")>>, <<"isVerified", Bool(FALSE)>>,
            <<"additionalData", ObjOf(<< <<"role", Str("guest")>> >>)>> >>)}

\* Partial<Identity>
UpdateSamples ==
  {ObjOf(<< <<"name", Str("Renamed")>> >>),
   ObjOf(<< <<"id", Str("id9")>>, <<"email", Str("new@x.com")>> >>)}

StoreCallFrame ==
  UNCHANGED <<walletVars, storeVars, uiVars, histVars, notSys, now>>

AddIdentity ==
  /\ CanCall /\ Called
  /\ \E identity \in DirectIdentities :
       Goto(FreeSlot, [Started("addIdentity") EXCEPT !.pc = "add:getItem",
                                                     !.fresh = identity])
  /\ StoreCallFrame

UpdateIdentity ==
  /\ CanCall /\ Called
  /\ \E id \in IdentityIds, updates \in UpdateSamples :
       Goto(FreeSlot, [Started("updateIdentity") EXCEPT !.pc = "update:getItem",
                                                        !.id = id, !.arg = updates])
  /\ StoreCallFrame

DeleteIdentity ==
  /\ CanCall /\ Called
  /\ \E id \in IdentityIds :
       Goto(FreeSlot, [Started("deleteIdentity") EXCEPT !.pc = "delete:getItem",
                                                        !.id = id])
  /\ StoreCallFrame

\* addIdentity: await AsyncStorage.getItem returns inside loadIdentities.
AddLoadedFrom(t, identities) ==
  LET tk == tasks[t]
      newIdentity == NewIdentity(tk.fresh, nextId, now)
  IN /\ tk.pc = "add:getItem"
     /\ nextId' = nextId + 1
     /\ Goto(t, [tk EXCEPT !.pc = "add:setItem", !.loaded = identities,
                           !.list = Append(identities, newIdentity),
                           !.fresh = newIdentity])
     /\ UNCHANGED <<walletVars, stored, uiVars, calls, histVars, notSys, now>>

Backed(tk) ==
  IF tk.backed THEN credBacked \cup {Get(tk.fresh, "id").v} ELSE credBacked

\* addIdentity: await AsyncStorage.setItem returns inside saveIdentities.
AddSaved(t) ==
  LET tk == tasks[t] IN
  /\ tk.pc = "add:setItem"
  /\ stored' = SavedItem(tk.list, now)
  /\ credBacked' = Backed(tk)
  /\ CASE tk.op = "addIdentity" ->
            /\ Finish(t, RetValue(tk, tk.fresh))
            /\ UNCHANGED <<isScanning, ctxIdentities>>
       [] tk.op = "processQRCode" ->
            /\ ctxIdentities' = Append(ctxIdentities, tk.fresh)
            /\ isScanning' = FALSE
            /\ Finish(t, RetValue(tk, Undef))
       [] tk.op = "fetchFromRemoteSource" ->
            /\ Finish(t, RetValue(tk,
                 FetchResult(TRUE, tk.fresh, Undef,
                   IF RemoteTable[tk.arg].credential # Null THEN <<>>
                   ELSE <<"Data fetched but no verifiable credential found">>)))
            /\ UNCHANGED <<isScanning, ctxIdentities>>
  /\ UNCHANGED <<walletVars, nextId, scanError, ctxError, ctxLoading, calls, inits,
                 epoch, readyBorn, notSys, now>>

AddLoaded(t) == AddLoadedFrom(t, LoadedIdentities(stored))

\* updateIdentity: await AsyncStorage.getItem returns inside loadIdentities.
UpdateLoadedFrom(t, identities) ==
  LET tk == tasks[t]
      index == FindIndex(identities, Str(tk.id))
  IN /\ tk.pc = "update:getItem"
     /\ IF index = 0
          THEN IF tk.op \in {"updateIdentity", "context.updateIdentity"}
                 THEN Finish(t, RetValue(tk, Null))
                 ELSE Finish(t, RetValue(tk, FetchResult(TRUE, tk.arg, Undef, <<>>)))
          ELSE Goto(t, [tk EXCEPT
                  !.pc = "update:setItem", !.loaded = identities,
                  !.list = [identities EXCEPT ![index] = Assign(identities[index], tk.arg)],
                  !.fresh = Assign(identities[index], tk.arg)])
     /\ UNCHANGED <<walletVars, storeVars, uiVars, calls, histVars, notSys, now>>

UpdateLoaded(t) == UpdateLoadedFrom(t, LoadedIdentities(stored))

\* updateIdentity: await AsyncStorage.setItem returns inside saveIdentities.
UpdateSaved(t) ==
  LET tk == tasks[t] IN
  /\ tk.pc = "update:setItem"
  /\ stored' = SavedItem(tk.list, now)
  /\ credBacked' = Backed(tk)
  /\ IF tk.op = "updateIdentity"
       THEN Finish(t, RetValue(tk, tk.fresh))
       ELSE Finish(t, RetValue(tk, FetchResult(TRUE, tk.arg, Undef, <<>>)))
  /\ UNCHANGED <<walletVars, nextId, uiVars, calls, inits, epoch, readyBorn,
                 notSys, now>>

\* deleteIdentity: await AsyncStorage.getItem returns inside loadIdentities.
DeleteLoaded(t) ==
  LET tk == tasks[t]
      identities == LoadedIdentities(stored)
      filteredIdentities ==
        SelectIdx(identities, {i \in 1..Len(identities) :
                                 ~StrictEq(Get(identities[i], "id"), Str(tk.id))})
  IN /\ tk.pc = "delete:getItem"
     /\ IF Len(filteredIdentities) = Len(identities)
          THEN Finish(t, RetValue(tk, Bool(FALSE)))
          ELSE Goto(t, [tk EXCEPT !.pc = "delete:setItem", !.loaded = identities,
                                  !.list = filteredIdentities])
     /\ UNCHANGED <<walletVars, storeVars, uiVars, calls, histVars, notSys, now>>

\* deleteIdentity: await AsyncStorage.setItem returns inside saveIdentities.
DeleteSaved(t) ==
  LET tk == tasks[t] IN
  /\ tk.pc = "delete:setItem"
  /\ stored' = SavedItem(tk.list, now)
  /\ Finish(t, RetValue(tk, Bool(TRUE)))
  /\ UNCHANGED <<walletVars, nextId, uiVars, calls, histVars, notSys, now>>

\* getIdentityById: await AsyncStorage.getItem returns inside loadIdentities;
\* the caller goes on to its call of initialize().
GetByIdLoadedFrom(t, identities) ==
  LET tk == tasks[t]
      index == FindIndex(identities, Str(tk.id))
  IN /\ tk.pc = "getById:getItem"
     /\ IF index = 0
          THEN /\ Finish(t, RetValue(tk, Failure(
                    IF tk.op = "fetchAndPopulateIdentity"
                      THEN "Identity not found in local storage"
                      ELSE "Identity not found")))
               /\ UNCHANGED <<walletCreds, scanError, ctxError>>
          ELSE CallInitialize(t, [tk EXCEPT !.existing = identities[index]], scanError)
     /\ UNCHANGED <<wallet, initialized, storeVars, isScanning, ctxIdentities, ctxLoading, calls,
                    histVars, notSys, now>>

GetByIdLoaded(t) == GetByIdLoadedFrom(t, LoadedIdentities(stored))

----------------------------------------------------------------------------
(* IdentityFetchService and useQRScanner: the operations *)

FetchAndPopulateIdentity ==
  /\ CanCall /\ Called
  /\ \E id \in IdentityIds :
       Goto(FreeSlot, [Started("fetchAndPopulateIdentity") EXCEPT
                         !.pc = "getById:getItem", !.id = id])
  /\ StoreCallFrame

RequestedAttributes == {<<>>, <<"email">>}

CreateVerifiablePresentation ==
  /\ CanCall /\ Called
  /\ \E id \in IdentityIds, requestedAttributes \in RequestedAttributes :
       Goto(FreeSlot, [Started("createVerifiablePresentation") EXCEPT
                         !.pc = "getById:getItem", !.id = id,
                         !.attrs = requestedAttributes])
  /\ StoreCallFrame

FetchFromRemoteSource ==
  /\ CanCall /\ Called
  /\ Goto(FreeSlot, [Started("fetchFromRemoteSource") EXCEPT !.pc = "fetch",
                                                             !.data = RemoteUrl])
  /\ StoreCallFrame

\* refreshAllCredentials()
RefreshAllCredentials ==
  /\ CanCall /\ Called
  /\ Goto(FreeSlot, [Started("refreshAllCredentials") EXCEPT !.pc = "refresh:getItem"])
  /\ StoreCallFrame

\* refreshAllCredentials: loadIdentities gave identities; the loop starts.
RefreshLoadedFrom(t, identities) ==
  LET tk == tasks[t]
      ids == [i \in 1..Len(identities) |-> Get(identities[i], "id").v]
  IN /\ tk.pc = "refresh:getItem"
     /\ IF ids = <<>>
          THEN Finish(t, RetValue(tk, [updated |-> 0, errors |-> <<>>]))
          ELSE Goto(t, [Started("fetchAndPopulateIdentity") EXCEPT
                          !.pc = "getById:getItem", !.id = Head(ids),
                          !.todo = Tail(ids), !.outer = TRUE])
     /\ UNCHANGED <<walletVars, storeVars, uiVars, calls, histVars, notSys, now>>

\* refreshAllCredentials: await AsyncStorage.getItem returns inside
\* loadIdentities.
RefreshLoaded(t) == RefreshLoadedFrom(t, LoadedIdentities(stored))

\* await AsyncStorage.getItem rejects: the catch block of loadIdentities
\* gives the caller an empty list.
ReadFailed(t) ==
  \/ AddLoadedFrom(t, <<>>)
  \/ UpdateLoadedFrom(t, <<>>)
  \/ GetByIdLoadedFrom(t, <<>>)
  \/ RefreshLoadedFrom(t, <<>>)

FetchOperations ==
  {"fetchAndPopulateIdentity", "createVerifiablePresentation", "fetchFromRemoteSource"}

\* The collaborator a call of the fetch service or of the scanner waits for
\* rejects: AsyncStorage.setItem, the wallet library, fetch or response.json.
\* Whatever the service in between rethrows, the catch block of the call
\* gets it.
Rejected(t) ==
  LET tk == tasks[t] IN
  /\ tk.op \in FetchOperations \cup {"processQRCode"}
  /\ tk.pc \in {"add:setItem", "update:setItem", "wallet.getAllCredentials",
                "wallet.createPresentation", "wallet.storeCredential",
                "fetch", "response.json"}
  /\ Caught(t, tk)
  /\ UNCHANGED <<walletVars, storeVars, isScanning, ctxIdentities, ctxLoading, ctxError, calls,
                 histVars, notSys, now>>

\* await fetch(source.url, ...) returns.
RemoteResponded(t) ==
  LET tk == tasks[t] IN
  /\ tk.pc = "fetch"
  /\ \E response \in RemoteResponses :
       IF ~response.ok
         THEN Finish(t, RetValue(tk, Failure("HTTP " \o response.status \o ": "
                                             \o response.statusText)))
         ELSE Goto(t, [tk EXCEPT !.pc = "response.json", !.arg = response.data])
  /\ UNCHANGED scanError
  /\ StepFrame

\* await response.json() returns.
RemoteBodyRead(t) ==
  LET tk == tasks[t] IN
  /\ tk.pc = "response.json"
  /\ IF RemoteTable[tk.arg].credential # Null
       THEN IF wallet = NoWallet
              THEN Caught(t, tk) /\ UNCHANGED walletCreds
              ELSE /\ walletCreds' = [walletCreds EXCEPT
                                        ![wallet] = Append(@, RemoteTable[tk.arg].credential)]
                   /\ Goto(t, [tk EXCEPT !.pc = "wallet.storeCredential"])
                   /\ UNCHANGED scanError
       ELSE /\ Goto(t, [tk EXCEPT !.pc = "add:getItem",
                                  !.fresh = RemoteTable[tk.arg].newIdentity])
            /\ UNCHANGED <<walletCreds, scanError>>
  /\ UNCHANGED <<wallet, initialized, storeVars, isScanning, ctxIdentities, ctxLoading, ctxError,
                 calls, histVars, notSys, now>>

\* A scan without the gate of validateQRData.
ProcessQRCodeUngated ==
  /\ CanCall /\ Called
  /\ \E data \in ScannedTexts :
       CallInitialize(FreeSlot, [Started("processQRCode") EXCEPT !.data = data], Null)
  /\ UNCHANGED <<wallet, initialized, storeVars, isScanning, ctxIdentities, ctxLoading, histVars,
                 notSys, now>>

ProcessQRCode ==
  /\ CanCall /\ Called
  /\ \E data \in ScannedTexts :
       IF ~ScanTable[data].validation.isValid
         THEN /\ scanError' = Or(ScanTable[data].validation.error, Str("Invalid QR code"))
              /\ Finish(FreeSlot, RetValue([Started("processQRCode") EXCEPT !.data = data],
                                           Undef))
              /\ UNCHANGED <<walletCreds, ctxError>>
         ELSE CallInitialize(FreeSlot, [Started("processQRCode") EXCEPT !.data = data],
                             Null)
  /\ UNCHANGED <<wallet, initialized, storeVars, isScanning, ctxIdentities, ctxLoading, histVars,
                 notSys, now>>

----------------------------------------------------------------------------
(* PerformanceService: the analytics events.  The timers (this.metrics) are *)
(* a separate map that no operation on events reads.                        *)

maxStoredEvents == 100
MaxPerfCalls == 3
RecentShown == 10

NoUser == "undefined"
\* An AnalyticsEvent.  The caller numbers its events in properties.serial.
Event(name, timestamp, serial, userId) ==
  [name |-> name, timestamp |-> timestamp, properties |-> [serial |-> serial],
   userId |-> userId]

\* The arguments given to trackEvent.
TrackSamples == {<<"screen_view", NoUser>>, <<"qr_scan", "u1">>}

\* m events stamped stamp, numbered from first + 1 on.
Batch(m, stamp, first) ==
  [i \in 1..m |-> Event("identity_created", stamp, first + i, NoUser)]
\* The data given to importData: no events, a few events recorded an hour
\* before the start, a buffer nearly full recorded at the start.
NoEvents == <<0, 0>>
ImportSamples == {NoEvents, <<2, StartClock - 1>>, <<maxStoredEvents - 1, StartClock>>}

\* Array.prototype.sort((a, b) => b.timestamp - a.timestamp): the events by
\* descending timestamp, events of one timestamp in the order they had.
RECURSIVE SortedFrom(_, _)
SortedFrom(list, stamps) ==
  IF stamps = {} THEN <<>>
  ELSE LET top == SetMax(stamps) IN
       SelectSeq(list, LAMBDA event : event.timestamp = top)
         \o SortedFrom(list, stamps \ {top})
SortByTimestamp(list) ==
  SortedFrom(list, {list[i].timestamp : i \in 1..Len(list)})

\* Array.prototype.slice(0, n) and slice(-n)
FirstOf(list, n) == SubSeq(list, 1, Min(n, Len(list)))
LastOf(list, n) == SubSeq(list, Max(1, Len(list) - n + 1), Len(list))

\* The value getAnalyticsSummary returns for this.events as it finds them;
\* sorted is this.events after the sort in place.
NameOf(event) == event.name
UserOf(event) == IF event.userId = NoUser THEN "anonymous" ELSE event.userId
CountByName(list) ==
  [k \in {NameOf(list[i]) : i \in 1..Len(list)} |->
     Cardinality({i \in 1..Len(list) : NameOf(list[i]) = k})]
CountByUser(list) ==
  [k \in {UserOf(list[i]) : i \in 1..Len(list)} |->
     Cardinality({i \in 1..Len(list) : UserOf(list[i]) = k})]
AnalyticsSummary(list, sorted) ==
  [eventCounts |-> CountByName(list),
   recentEvents |-> FirstOf(sorted, RecentShown),
   userActivity |-> CountByUser(sorted)]

NoOutput == [op |-> "none"]
PerfIdle == events = <<>> /\ received = 0 /\ perfCalls = 0 /\ perfOut = NoOutput

TrackEvent ==
  /\ perfCalls < MaxPerfCalls
  /\ perfCalls' = perfCalls + 1
  /\ received' = received + 1
  /\ \E sample \in TrackSamples :
       LET event == Event(sample[1], now, received + 1, sample[2])
           pushed == Append(events, event)
       IN events' = IF Len(pushed) > maxStoredEvents THEN Tail(pushed) ELSE pushed
  /\ perfOut' = [op |-> "trackEvent"]
  /\ UNCHANGED <<now, notPerf>>

ImportData ==
  /\ perfCalls < MaxPerfCalls
  /\ perfCalls' = perfCalls + 1
  /\ \E data \in ImportSamples :
       IF data = NoEvents
         THEN UNCHANGED <<events, received>>
         ELSE LET pushed == events \o Batch(data[1], data[2], received) IN
              /\ received' = received + data[1]
              /\ events' = IF Len(pushed) > maxStoredEvents
                             THEN LastOf(pushed, maxStoredEvents) ELSE pushed
  /\ perfOut' = [op |-> "importData"]
  /\ UNCHANGED <<now, notPerf>>

GetEvents ==
  /\ perfOut' = [op |-> "getEvents", events |-> events]
  /\ UNCHANGED <<events, received, perfCalls, now, notPerf>>

GetAnalyticsSummary ==
  LET sorted == SortByTimestamp(events) IN
  /\ events' = sorted
  /\ perfOut' = [op |-> "getAnalyticsSummary",
                 summary |-> AnalyticsSummary(events, sorted)]
  /\ UNCHANGED <<received, perfCalls, now, notPerf>>

OptimizeStorage ==
  /\ events' = FirstOf(SortByTimestamp(events), maxStoredEvents)
  /\ perfOut' = [op |-> "optimizeStorage"]
  /\ UNCHANGED <<received, perfCalls, now, notPerf>>

\* exportData: getEvents() copies the events before getAnalyticsSummary()
\* sorts them.
ExportData ==
  LET sorted == SortByTimestamp(events) IN
  /\ events' = sorted
  /\ perfOut' = [op |-> "exportData", events |-> events,
                 summary |-> AnalyticsSummary(events, sorted)]
  /\ UNCHANGED <<received, perfCalls, now, notPerf>>

----------------------------------------------------------------------------
(* Specifications *)

\* The analytics buffer, filled, read and trimmed while time passes.
InitPerformance == ValIdle /\ QrIdle /\ SysIdle /\ PerfIdle
NextPerformance ==
  \/ TrackEvent \/ ImportData \/ GetEvents \/ GetAnalyticsSummary
  \/ OptimizeStorage \/ ExportData \/ Tick
SpecPerformance == InitPerformance /\ [][NextPerformance]_vars

InitValidation == ValIdle /\ QrIdle /\ SysIdle /\ PerfIdle
NextValidation == AddCustomRule \/ RemoveRule \/ Tick \/ ValidateIdentity
SpecValidation == InitValidation /\ [][NextValidation]_vars

\* The summary the detail screen shows, under every registry.
InitSummary == ValIdle /\ QrIdle /\ SysIdle /\ PerfIdle
NextSummary == AddCustomRule \/ RemoveRule \/ GetValidationSummary
SpecSummary == InitSummary /\ [][NextSummary]_vars

InitParser == ValIdle /\ QrIdle /\ SysIdle /\ PerfIdle
NextParser ==
  \/ ParseQRData \/ ValidateQRData \/ ParseCredentialFromQR
  \/ ExtractIdentityFromCredential
SpecParser == InitParser /\ [][NextParser]_vars

\* The wallet service, called directly and by the operations that initialize it.
InitWallet == ValIdle /\ QrIdle /\ SysIdle /\ PerfIdle
NextWallet ==
  \/ Initialize \/ Reset \/ GetWalletDID \/ StoreCredential \/ GetAllCredentials
  \/ CreatePresentation \/ CreateSelectiveDisclosurePresentation \/ GetIdentityData
  \/ ProcessQRCode \/ FetchAndPopulateIdentity \/ CreateVerifiablePresentation
  \/ \E t \in Slots :
       \/ ModuleLoaded(t) \/ WalletCreated(t) \/ CredentialsReturned(t)
       \/ PresentationReturned(t) \/ CredentialStored(t) \/ GetByIdLoaded(t)
       \/ AddLoaded(t) \/ AddSaved(t) \/ UpdateLoaded(t) \/ UpdateSaved(t)
SpecWallet == InitWallet /\ [][NextWallet]_vars

\* The ways a record comes to be stored or verified.
InitIngest == ValIdle /\ QrIdle /\ SysIdle /\ PerfIdle
NextIngest ==
  \/ ProcessQRCode \/ FetchFromRemoteSource \/ FetchAndPopulateIdentity
  \/ \E t \in Slots :
       \/ ModuleLoaded(t) \/ WalletCreated(t) \/ CredentialsReturned(t)
       \/ CredentialStored(t) \/ GetByIdLoaded(t) \/ RemoteResponded(t)
       \/ RemoteBodyRead(t)
       \/ AddLoaded(t) \/ AddSaved(t) \/ UpdateLoaded(t) \/ UpdateSaved(t)
SpecIngest == InitIngest /\ [][NextIngest]_vars

\* Records typed in or scanned, then reconciled or presented.
InitPresent == ValIdle /\ QrIdle /\ SysIdle /\ PerfIdle
NextPresent ==
  \/ AddIdentity \/ ProcessQRCode \/ FetchAndPopulateIdentity
  \/ CreateVerifiablePresentation
  \/ \E t \in Slots :
       \/ ModuleLoaded(t) \/ WalletCreated(t) \/ CredentialsReturned(t)
       \/ PresentationReturned(t) \/ CredentialStored(t) \/ GetByIdLoaded(t)
       \/ AddLoaded(t) \/ AddSaved(t) \/ UpdateLoaded(t) \/ UpdateSaved(t)
SpecPresent == InitPresent /\ [][NextPresent]_vars

\* The fetch service with collaborators that fail.
InitFaults == ValIdle /\ QrIdle /\ SysIdle /\ PerfIdle
NextFaults ==
  \/ ProcessQRCode \/ FetchAndPopulateIdentity \/ CreateVerifiablePresentation
  \/ FetchFromRemoteSource \/ RefreshAllCredentials
  \/ \E t \in Slots :
       \/ ModuleLoaded(t) \/ WalletCreated(t) \/ CredentialsReturned(t)
       \/ PresentationReturned(t) \/ CredentialStored(t) \/ GetByIdLoaded(t)
       \/ RemoteResponded(t) \/ RemoteBodyRead(t) \/ RefreshLoaded(t)
       \/ AddLoaded(t) \/ AddSaved(t) \/ UpdateLoaded(t) \/ UpdateSaved(t)
       \/ ReadFailed(t) \/ Rejected(t)
SpecFaults == InitFaults /\ [][NextFaults]_vars

\* addIdentity called when no other call is in flight.
Alone == \A t \in Slots : tasks[t].pc = "idle"
AddIdentityAlone == Alone /\ AddIdentity
UpdateIdentityAlone == Alone /\ UpdateIdentity
DeleteIdentityAlone == Alone /\ DeleteIdentity

\* addIdentity: await AsyncStorage.getItem rejects, or gives a text that
\* JSON.parse rejects: the catch block of loadIdentities gives an empty list.
AddReadFailed(t) == AddLoadedFrom(t, <<>>)

\* The store used by one call at a time, with reads that fail.
InitAlone == ValIdle /\ QrIdle /\ SysIdle /\ PerfIdle
NextAlone ==
  \/ AddIdentityAlone \/ UpdateIdentityAlone \/ DeleteIdentityAlone
  \/ \E t \in Slots :
       \/ AddLoaded(t) \/ AddReadFailed(t) \/ AddSaved(t)
       \/ UpdateLoaded(t) \/ UpdateSaved(t) \/ DeleteLoaded(t) \/ DeleteSaved(t)
SpecAlone == InitAlone /\ [][NextAlone]_vars

\* The store, written by its own operations and by reconciliation.
InitStore == ValIdle /\ QrIdle /\ SysIdle /\ PerfIdle
NextStore ==
  \/ AddIdentity \/ UpdateIdentity \/ DeleteIdentity \/ FetchAndPopulateIdentity
  \/ ProcessQRCode
  \/ \E t \in Slots :
       \/ ModuleLoaded(t) \/ WalletCreated(t) \/ CredentialsReturned(t)
       \/ CredentialStored(t) \/ GetByIdLoaded(t)
       \/ AddLoaded(t) \/ AddSaved(t) \/ UpdateLoaded(t) \/ UpdateSaved(t)
       \/ DeleteLoaded(t) \/ DeleteSaved(t)
SpecStore == InitStore /\ [][NextStore]_vars

----------------------------------------------------------------------------
(* IdentityProvider: the operations of the context *)

\* What a call of the context leaves alone when it starts: it runs
\* setError(null) and awaits the storage service.
ContextCallFrame ==
  UNCHANGED <<walletVars, storeVars, scanError, isScanning, ctxIdentities, ctxLoading,
              histVars, notSys, now>>

\* loadIdentities, as refreshIdentities calls it: setLoading(true),
\* setError(null), then the await of storageService.loadIdentities().
Loading == [Started("refreshIdentities") EXCEPT !.pc = "load:getItem"]
RefreshIdentities ==
  /\ CanCall /\ Called
  /\ ctxLoading' = TRUE
  /\ ctxError' = Null
  /\ Goto(FreeSlot, Loading)
  /\ UNCHANGED <<walletVars, storeVars, scanError, isScanning, ctxIdentities,
                 histVars, notSys, now>>

\* loadIdentities: the await returns; setIdentities(loadedIdentities), and the
\* finally block runs setLoading(false).
IdentitiesLoaded(t) ==
  LET tk == tasks[t] IN
  /\ tk.pc = "load:getItem"
  /\ ctxIdentities' = LoadedIdentities(stored)
  /\ ctxLoading' = FALSE
  /\ Finish(t, RetValue(tk, Undef))
  /\ UNCHANGED <<walletVars, storeVars, scanError, isScanning, ctxError, calls,
                 histVars, notSys, now>>

ContextAddIdentity ==
  /\ CanCall /\ Called
  /\ ctxError' = Null
  /\ \E identity \in DirectIdentities :
       Goto(FreeSlot, [Started("context.addIdentity") EXCEPT !.pc = "add:getItem",
                                                             !.fresh = identity])
  /\ ContextCallFrame

\* addIdentity of the context: storageService.addIdentity returns;
\* setIdentities(prev => [...prev, newIdentity]).
ContextAddSaved(t) ==
  LET tk == tasks[t] IN
  /\ tk.pc = "add:setItem" /\ tk.op = "context.addIdentity"
  /\ stored' = SavedItem(tk.list, now)
  /\ ctxIdentities' = Append(ctxIdentities, tk.fresh)
  /\ Finish(t, RetValue(tk, tk.fresh))
  /\ UNCHANGED <<walletVars, nextId, scanError, isScanning, ctxError, ctxLoading,
                 calls, histVars, notSys, now>>

ContextUpdateIdentity ==
  /\ CanCall /\ Called
  /\ ctxError' = Null
  /\ \E id \in IdentityIds, updates \in UpdateSamples :
       Goto(FreeSlot, [Started("context.updateIdentity") EXCEPT
                         !.pc = "update:getItem", !.id = id, !.arg = updates])
  /\ ContextCallFrame

\* updateIdentity of the context: storageService.updateIdentity returns the
\* updated record; setIdentities(prev => prev.map(...)).
ContextUpdateSaved(t) ==
  LET tk == tasks[t] IN
  /\ tk.pc = "update:setItem" /\ tk.op = "context.updateIdentity"
  /\ stored' = SavedItem(tk.list, now)
  /\ ctxIdentities' =
       [i \in 1..Len(ctxIdentities) |->
          IF StrictEq(Get(ctxIdentities[i], "id"), Str(tk.id))
            THEN tk.fresh ELSE ctxIdentities[i]]
  /\ Finish(t, RetValue(tk, tk.fresh))
  /\ UNCHANGED <<walletVars, nextId, scanError, isScanning, ctxError, ctxLoading,
                 calls, histVars, notSys, now>>

ContextDeleteIdentity ==
  /\ CanCall /\ Called
  /\ ctxError' = Null
  /\ \E id \in IdentityIds :
       Goto(FreeSlot, [Started("context.deleteIdentity") EXCEPT
                         !.pc = "delete:getItem", !.id = id])
  /\ ContextCallFrame

\* deleteIdentity of the context: storageService.deleteIdentity returns true;
\* setIdentities(prev => prev.filter(...)).
ContextDeleteSaved(t) ==
  LET tk == tasks[t] IN
  /\ tk.pc = "delete:setItem" /\ tk.op = "context.deleteIdentity"
  /\ stored' = SavedItem(tk.list, now)
  /\ ctxIdentities' =
       SelectIdx(ctxIdentities,
                 {i \in 1..Len(ctxIdentities) :
                    ~StrictEq(Get(ctxIdentities[i], "id"), Str(tk.id))})
  /\ Finish(t, RetValue(tk, Bool(TRUE)))
  /\ UNCHANGED <<walletVars, nextId, scanError, isScanning, ctxError, ctxLoading,
                 calls, histVars, notSys, now>>

\* The provider once mounted: the state hooks hold their initial values and
\* the effect's call of loadIdentities() waits for the storage service.
InitProvider ==
  /\ ValIdle /\ QrIdle /\ PerfIdle
  /\ wallet = NoWallet /\ initialized = FALSE /\ walletCreds = <<>>
  /\ stored = NoItem /\ nextId = 1
  /\ scanError = Null /\ isScanning = FALSE
  /\ ctxIdentities = <<>> /\ ctxError = Null /\ ctxLoading = TRUE
  /\ tasks = [t \in Slots |-> IF t = 1 THEN Loading ELSE IdleTask]
  /\ calls = 0 /\ lastReturn = NoReturn
  /\ inits = 0 /\ epoch = 0 /\ readyBorn = 0 /\ credBacked = {}
NextProvider ==
  \/ ContextAddIdentity \/ ContextUpdateIdentity \/ ContextDeleteIdentity
  \/ RefreshIdentities
  \/ \E t \in Slots :
       \/ IdentitiesLoaded(t)
       \/ AddLoaded(t) \/ ContextAddSaved(t)
       \/ UpdateLoaded(t) \/ ContextUpdateSaved(t)
       \/ DeleteLoaded(t) \/ ContextDeleteSaved(t)
SpecProvider == InitProvider /\ [][NextProvider]_vars

\* The state the calls addIdentity(Al), addIdentity(Bo), processQRCode(text of
\* CredentialA), processQRCode(text of CredentialB) leave when made one after
\* the other from the start: four records in the store, the two credentials
\* in the wallet.
DirectNamed(name) == CHOOSE d \in DirectIdentities : Get(d, "name") = Str(name)
FilledStore ==
  <<NewIdentity(DirectNamed("Al"), 1, StartClock),
    NewIdentity(DirectNamed("Bo"), 2, StartClock),
    NewIdentity(ScanTable[JSONstringify(CredentialA)].newIdentity, 3, StartClock),
    NewIdentity(ScanTable[JSONstringify(CredentialB)].newIdentity, 4, StartClock)>>
InitAgain ==
  /\ ValIdle /\ QrIdle /\ PerfIdle
  /\ wallet = 1 /\ initialized = TRUE
  /\ walletCreds = << <<CredentialA, CredentialB>> >>
  /\ stored = SavedItem(FilledStore, StartClock) /\ nextId = 5
  /\ scanError = Null /\ isScanning = FALSE
  /\ ctxIdentities = <<FilledStore[3], FilledStore[4]>>
  /\ ctxError = Null /\ ctxLoading = TRUE
  /\ tasks = [t \in Slots |-> IdleTask] /\ calls = 0 /\ lastReturn = NoReturn
  /\ inits = 1 /\ epoch = 0 /\ readyBorn = 0
  /\ credBacked = {generateId(3), generateId(4)}

\* fetchAndPopulateIdentity run again and again on a filled store, the wallet
\* left as it is.
NextAgain ==
  \/ FetchAndPopulateIdentity
  \/ \E t \in Slots :
       \/ GetByIdLoaded(t) \/ CredentialsReturned(t)
       \/ UpdateLoaded(t) \/ UpdateSaved(t)
SpecAgain == InitAgain /\ [][NextAgain]_vars

----------------------------------------------------------------------------
(* Properties of the validation engine *)

\* C1: whatever the record and the registry, the score validateIdentity returns
\* lies in 0..100; it is 0 when the sum of the rules' scores is negative and 100
\* when that sum exceeds 100.
C1_ScoreClamped ==
  vResult # NoResult =>
    /\ vResult.score \in 0..100
    /\ (vTotal < 0 => vResult.score = 0)
    /\ (vTotal > 100 => vResult.score = 100)
    /\ (vTotal \in 0..100 => vResult.score = vTotal)

\* A call whose sum was negative, with a throwing rule in the registry.
C1_Witness ==
  /\ vResult # NoResult
  /\ vTotal < 0
  /\ vResult.score = 0
  /\ \E i \in 1..Len(rules) : rules[i].custom /\ rules[i].outcome.threw

\* A call whose sum exceeded 100.
C1_WitnessAbove == vResult # NoResult /\ vTotal > 100 /\ vResult.score = 100

\* What the rule at place i of the registry gives for the record validated,
\* taken by itself.
OutcomeOf(i) == Validate(rules[i], vIdentity, vClock)
Threw(i) == OutcomeOf(i).threw
FailedToExecute(i) == "Validation rule '" \o rules[i].name \o "' failed to execute"

\* What the rule at place i is to contribute.
WarningsOf(i) ==
  IF Threw(i) THEN <<FailedToExecute(i)>>
  ELSE IF Truthy(OutcomeOf(i).warning) THEN <<OutcomeOf(i).warning.v>>
  ELSE <<>>
ErrorsOf(i) ==
  IF ~Threw(i) /\ ~OutcomeOf(i).valid /\ Truthy(OutcomeOf(i).error)
    THEN <<OutcomeOf(i).error.v>>
    ELSE <<>>
ScoreOf(i) == IF Threw(i) THEN 0 ELSE OutcomeOf(i).score

\* The contributions of the first n rules, in registry order.
RECURSIVE WarningsUpTo(_)
WarningsUpTo(n) == IF n = 0 THEN <<>> ELSE WarningsUpTo(n - 1) \o WarningsOf(n)
RECURSIVE ErrorsUpTo(_)
ErrorsUpTo(n) == IF n = 0 THEN <<>> ELSE ErrorsUpTo(n - 1) \o ErrorsOf(n)
RECURSIVE ScoreUpTo(_)
ScoreUpTo(n) == IF n = 0 THEN 0 ELSE ScoreUpTo(n - 1) + ScoreOf(n)

\* C14: a rule that throws contributes one warning that names it, no error
\* and no score; every rule of the registry, before and after it, contributes
\* its own errors, warnings and score; the record is valid exactly when there
\* is no error.
C14_ThrowingRuleIsWarning ==
  vResult # NoResult =>
    /\ vResult.warnings = WarningsUpTo(Len(rules))
    /\ vResult.errors = ErrorsUpTo(Len(rules))
    /\ vTotal = ScoreUpTo(Len(rules))
    /\ vResult.isValid <=> (vResult.errors = <<>>)

\* A rule threw, a later rule scored and gave an error, and the only trace of
\* the throw is its one warning.
C14_Witness ==
  /\ vResult # NoResult
  /\ \E i, j \in 1..Len(rules) :
       /\ i < j
       /\ Threw(i)
       /\ ~Threw(j) /\ OutcomeOf(j).score # 0 /\ ErrorsOf(j) # <<>>
       /\ Cardinality({w \in 1..Len(vResult.warnings) :
                         vResult.warnings[w] = FailedToExecute(i)}) = 1
       /\ \A e \in 1..Len(vResult.errors) : vResult.errors[e] # FailedToExecute(i)
  /\ ~vResult.isValid
\* Rules threw and the record is valid all the same.
C14_WitnessValid ==
  /\ vResult # NoResult
  /\ \E i \in 1..Len(rules) : Threw(i)
  /\ vResult.isValid

\* The canonical weights.  A field is populated when it is a text with a
\* character that is no blank, and absent when it is undefined or empty; days
\* are whole days elapsed.
Populated(x) == IsStr(x) /\ Len(Trim(x.v)) > 0
Absent(x) == x = Undef \/ x = Str("")
NameWeight(r) == IF Populated(r.name) THEN 20 ELSE 0
EmailWeight(r) ==
  IF Absent(r.email) THEN 0 ELSE IF emailRegex(r.email.v) THEN 15 ELSE -10
PhoneWeight(r) ==
  IF Absent(r.phone) THEN 0 ELSE IF phoneRegex(r.phone.v) THEN 10 ELSE -5
QRWeight(r) ==
  IF ~Populated(r.qrData) THEN -20
  ELSE IF JSONparse(r.qrData.v).ok THEN 15
  ELSE IF \E marker \in {"@", "identity:", "user:"} : Includes(r.qrData.v, marker) THEN 10
  ELSE 5
VerifiedWeight(r) == IF r.isVerified = Bool(TRUE) THEN 25 ELSE 0
CompletenessWeight(r) ==
  LET populated == Cardinality({f \in {"name", "email", "phone"} : Populated(r[f])}) IN
  CASE populated = 0 -> 0
    [] populated = 1 -> 5
    [] populated = 2 -> 10
    [] populated = 3 -> 15
CredentialWeight(r) ==
  LET ad == r.additionalData
      present == \/ Truthy(Get(ad, "credentialId"))
                 \/ (IsArr(Get(ad, "credentials")) /\ Get(ad, "credentials").v # <<>>)
  IN IF ~present THEN 0
     ELSE IF Truthy(Get(ad, "issuer")) /\ Truthy(Get(ad, "issuanceDate")) THEN 20
     ELSE 10
FreshnessWeight(r, clock) ==
  LET days == (clock - r.dateAdded) \div 24 IN
  IF days <= 7 THEN 10 ELSE IF days <= 30 THEN 5 ELSE IF days <= 90 THEN 0 ELSE -5
CanonicalSum(r, clock) ==
  NameWeight(r) + EmailWeight(r) + PhoneWeight(r) + QRWeight(r) + VerifiedWeight(r)
    + CompletenessWeight(r) + CredentialWeight(r) + FreshnessWeight(r, clock)
Clamped(n) == IF n < 0 THEN 0 ELSE IF n > 100 THEN 100 ELSE n

\* The record's name, e-mail, phone and QR text are texts or undefined, as
\* the Identity type has them: no default rule throws on it.
WellTyped(r) ==
  /\ IsStr(r.name) /\ IsStr(r.qrData)
  /\ \A f \in {"email", "phone"} : IsStr(r[f]) \/ r[f] = Undef

C15_WitnessRounded ==
  /\ vResult # NoResult /\ rules = initializeDefaultRules /\ WellTyped(vIdentity)
  /\ CompletenessWeight(vIdentity) = 5
  /\ vResult.score \in 1..99
\* Issuer and issuance date without a credential id or list: weight 0.
C15_WitnessNoCredential ==
  /\ vResult # NoResult /\ rules = initializeDefaultRules /\ WellTyped(vIdentity)
  /\ Truthy(Get(vIdentity.additionalData, "issuer"))
  /\ CredentialWeight(vIdentity) = 0
  /\ vResult.score \in 1..99

\* The caller holds the result of a call and calls again on the same record
\* under the same registry.
SameCallAgain ==
  /\ vResult # NoResult /\ vResult' # NoResult
  /\ vIdentity' = vIdentity
  /\ rules' = rules
\* A call returned: the record, the result or the clock it read is new.
CallReturned ==
  /\ vResult' # NoResult
  /\ <<vIdentity, vResult, vClock>>' # <<vIdentity, vResult, vClock>>

\* C16: validating the same unchanged record twice under an unchanged
\* registry gives identical results, and a call changes neither the record
\* nor the registry.
C16_Idempotent ==
  [][/\ SameCallAgain => vResult' = vResult
     /\ CallReturned => rules' = rules]_vars

\* C16, amended: the two results are identical when the record's age in whole
\* days falls into the same freshness band at both calls; a call changes
\* neither the record nor the registry.
C16_IdempotentWithinBand ==
  [][/\ (SameCallAgain
          /\ FreshnessWeight(vIdentity, vClock) = FreshnessWeight(vIdentity, vClock'))
        => vResult' = vResult /\ vTotal' = vTotal
     /\ CallReturned => rules' = rules /\ vIdentity' \in ValidationIdentities]_vars

\* The second of two calls on one record ran an hour after the first, within
\* the same band; the registry still has the freshness rule.
C16_Witness ==
  /\ vResult # NoResult
  /\ vClock = StartClock /\ now = StartClock + 1
  /\ \E i \in 1..Len(rules) : rules[i].name = "Data Freshness"
  /\ vIdentity.dateAdded = StartClock - 7 * HoursPerDay
  /\ validateIdentity(rules, vIdentity, now) = vResult
\* The second call would find the record a day older than the first did.
C16_WitnessCrossed ==
  /\ vResult # NoResult
  /\ vClock = StartClock /\ now = StartClock + 1
  /\ vIdentity.dateAdded = StartClock - 8 * HoursPerDay + 1
  /\ validateIdentity(rules, vIdentity, now).score = vResult.score - 5

\* Every error of the result is listed, in order, before any warning.
ErrorsBeforeWarnings(issues, validation) ==
  \E k \in 0..Len(issues) :
    /\ SubSeq(issues, 1, k) = validation.errors
    /\ \E n \in 0..Len(validation.warnings) :
         SubSeq(issues, k + 1, Len(issues)) = SubSeq(validation.warnings, 1, n)

\* C17: the summary surfaces at most three primary issues, errors before
\* warnings.
C17_AtMostThreeIssues ==
  vSummary # NoSummary
    => /\ Len(vSummary.primaryIssues) <= 3
       /\ ErrorsBeforeWarnings(vSummary.primaryIssues, vResult)

\* What the summary does surface: every error, then at most three warnings,
\* and at most three recommendations.
C17_AllErrorsThenThreeWarnings ==
  vSummary # NoSummary
    => /\ ErrorsBeforeWarnings(vSummary.primaryIssues, vResult)
       /\ Len(vSummary.primaryIssues)
            = Len(vResult.errors) + Min(3, Len(vResult.warnings))
       /\ Len(vSummary.recommendations) <= 3
       /\ vSummary.score = vResult.score

\* A summary of the default registry with more than three primary issues.
C17_WitnessMany ==
  /\ vSummary # NoSummary
  /\ rules = initializeDefaultRules
  /\ Len(vSummary.primaryIssues) > 3
\* A summary that left a warning out.
C17_WitnessSliced ==
  /\ vSummary # NoSummary
  /\ Len(vResult.warnings) > 3
  /\ Len(vResult.errors) = 0

\* The caller holds the result for a record without email and validates,
\* under the default registry and at the same clock reading, the record a
\* well-formed email was added to.
EmailAdded ==
  /\ vResult # NoResult /\ vResult' # NoResult
  /\ rules = initializeDefaultRules /\ rules' = rules
  /\ vClock' = vClock
  /\ WellTyped(vIdentity) /\ Absent(vIdentity.email)
  /\ IsStr(vIdentity'.email) /\ emailRegex(vIdentity'.email.v)
  /\ vIdentity' = [vIdentity EXCEPT !.email = vIdentity'.email]

\* C22: giving a record without email a well-formed email strictly increases
\* its score.
C22_EmailRaisesScore ==
  [][EmailAdded => vResult'.score > vResult.score]_vars

\* C22, amended: it adds 20 to the sum of the rules (15 of the email rule, 5
\* of completeness); the score never decreases, and it strictly increases
\* unless the clamp holds it at 100 or at 0.
C22_EmailRaisesSum ==
  [][EmailAdded
       => /\ vTotal' = vTotal + 20
          /\ vResult'.score >= vResult.score
          /\ (vTotal < 100 /\ vTotal' > 0) => vResult'.score > vResult.score
          /\ (vTotal >= 100 \/ vTotal' <= 0) => vResult'.score = vResult.score]_vars

WithoutEmail(r) == [r EXCEPT !.email = Undef]
\* A record with a well-formed email scores 20 more than it does without.
C22_Witness ==
  /\ vResult # NoResult /\ rules = initializeDefaultRules /\ WellTyped(vIdentity)
  /\ IsStr(vIdentity.email) /\ emailRegex(vIdentity.email.v)
  /\ WithoutEmail(vIdentity) \in ValidationIdentities
  /\ vResult.score = validateIdentity(rules, WithoutEmail(vIdentity), vClock).score + 20
\* A record with a well-formed email scores 100, as it does without.
C22_WitnessClamped ==
  /\ vResult # NoResult /\ rules = initializeDefaultRules /\ WellTyped(vIdentity)
  /\ IsStr(vIdentity.email) /\ emailRegex(vIdentity.email.v)
  /\ WithoutEmail(vIdentity) \in ValidationIdentities
  /\ vResult.score = 100
  /\ validateIdentity(rules, WithoutEmail(vIdentity), vClock).score = 100

----------------------------------------------------------------------------
(* Properties of the QR parser *)

\* JSON.parse(raw) succeeds and yields an object proper.
IsJSONObject(raw) == JSONparse(raw).ok /\ IsObj(JSONparse(raw).val)

\* C10: parseQRData never throws, and a text that is not a JSON object and
\* contains none of 'identity:', 'user:' and '@' yields exactly
\* {identifier: text}.
C10_FallbackIdentifier ==
  qrCall = "parseQRData" =>
    /\ ~qrOut.threw
    /\ (~IsJSONObject(qrRaw) /\ ~HasMarker(qrRaw)
          => qrOut.value = Obj(<<"identifier">>, <<Str(qrRaw)>>))

\* The alias tables: the keys of a scanned object, and of a credential
\* subject, that are mapped to named fields (the subject's id is mapped to
\* none and is no residual key either).
QRAliasKeys ==
  {"name", "displayName", "fullName", "email", "emailAddress", "phone",
   "phoneNumber", "mobile", "id", "identifier", "userId"}
SubjectAliasKeys ==
  {"id", "givenName", "name", "fullName", "email", "emailAddress", "phone",
   "phoneNumber", "mobile", "dateOfBirth", "dob", "address", "streetAddress"}

KeySet(o) == {o.k[i] : i \in 1..Len(o.k)}

\* additionalData of out holds exactly the keys in residual, with the values
\* input has for them, and is undefined when residual is empty.
HoldsExactly(out, input, residual) ==
  LET additionalData == Get(out, "additionalData") IN
  IF residual = {} THEN additionalData = Undef
  ELSE /\ IsObj(additionalData)
       /\ KeySet(additionalData) = residual
       /\ \A key \in residual : Get(additionalData, key) = Get(input, key)

\* The input of the call that returned: the scanned object, or the subject of
\* the credential found in the text.
ScannedObject == JSONparse(qrRaw).val
ScannedSubject == Get(QRResults[qrRaw].parseCredentialFromQR, "credentialSubject")
FromJSONObject == qrCall = "parseQRData" /\ IsJSONObject(qrRaw)
FromSubject == qrCall = "extractIdentityFromCredential" /\ IsObj(ScannedSubject)

\* C11: the additionalData of the attribute set that parseQRData makes of a
\* JSON object, and extractIdentityFromCredential of a credential subject,
\* holds exactly the input's keys that are not in the alias table, and is
\* undefined when there is no such key.
C11_ResidualKeys ==
  /\ FromJSONObject =>
       HoldsExactly(qrOut.value, ScannedObject, KeySet(ScannedObject) \ QRAliasKeys)
  /\ FromSubject =>
       HoldsExactly(qrOut.value, ScannedSubject, KeySet(ScannedSubject) \ SubjectAliasKeys)

\* The same for every residual key but __proto__.
C11_ResidualKeysButProto ==
  /\ FromJSONObject =>
       HoldsExactly(qrOut.value, ScannedObject,
                    KeySet(ScannedObject) \ (QRAliasKeys \cup {"__proto__"}))
  /\ FromSubject =>
       HoldsExactly(qrOut.value, ScannedSubject,
                    KeySet(ScannedSubject) \ (SubjectAliasKeys \cup {"__proto__"}))

\* The text is JSON for an object or an array, and its name, id or identifier
\* is a non-empty value.
JSONCarriesIdentity(raw) ==
  /\ JSONparse(raw).ok
  /\ JSONparse(raw).val.t \in {"object", "array"}
  /\ \E f \in {"name", "id", "identifier"} : Truthy(Get(JSONparse(raw).val, f))
\* The text is JSON for an object or an array.
IsJSONStructure(raw) ==
  JSONparse(raw).ok /\ JSONparse(raw).val.t \in {"object", "array"}
IsBlank(raw) == Len(Trim(raw)) = 0

\* The error validateQRData reports: emptiness first, then shortness, then
\* the format.
ReportedInOrder(raw, result) ==
  result.error =
    IF IsBlank(raw) THEN Str("QR code data is empty")
    ELSE IF Len(raw) < 10 THEN Str("QR code data appears to be too short")
    ELSE IF ~result.isValid THEN Str("QR code does not contain valid identity data")
    ELSE Undef

\* C12 as stated: validateQRData accepts exactly the texts that are not
\* empty, have 10 characters or more, and are JSON carrying a name, id or
\* identifier or contain '@', 'identity:' or 'user:'; it reports emptiness
\* before shortness before format.
C12_ValidWhenMarked ==
  qrCall = "validateQRData" =>
    /\ qrOut.value.isValid <=>
         /\ ~IsBlank(qrRaw)
         /\ Len(qrRaw) >= 10
         /\ (JSONCarriesIdentity(qrRaw) \/ HasMarker(qrRaw))
    /\ ReportedInOrder(qrRaw, qrOut.value)

\* C12, amended: the markers count only for a text that is not JSON for an
\* object or an array; such JSON is accepted exactly when its name, id or
\* identifier is a non-empty value, whatever else the text contains.
C12_ValidExactlyWhen ==
  qrCall = "validateQRData" =>
    /\ qrOut.value.isValid <=>
         /\ ~IsBlank(qrRaw)
         /\ Len(qrRaw) >= 10
         /\ IF IsJSONStructure(qrRaw) THEN JSONCarriesIdentity(qrRaw)
                                       ELSE HasMarker(qrRaw)
    /\ ReportedInOrder(qrRaw, qrOut.value)

\* A JSON object with an email address and no name, id or identifier was
\* refused for its format.
C12_Witness ==
  /\ qrCall = "validateQRData"
  /\ IsJSONStructure(qrRaw) /\ ~JSONCarriesIdentity(qrRaw) /\ HasMarker(qrRaw)
  /\ Len(qrRaw) >= 10
  /\ ~qrOut.value.isValid
  /\ qrOut.value.error = Str("QR code does not contain valid identity data")
\* A short text with a marker was refused for its length.
C12_WitnessShort ==
  /\ qrCall = "validateQRData"
  /\ ~IsBlank(qrRaw) /\ Len(qrRaw) < 10 /\ HasMarker(qrRaw)
  /\ qrOut.value.error = Str("QR code data appears to be too short")
\* A JSON number of ten digits and a quoted text with a marker: no object.
C12_WitnessPrimitive ==
  /\ qrCall = "validateQRData"
  /\ JSONparse(qrRaw).ok /\ ~IsJSONStructure(qrRaw) /\ HasMarker(qrRaw)
  /\ qrOut.value.isValid

\* The type is an array that contains the tag.
HasCredentialTag(obj) ==
  /\ IsArr(Get(obj, "type"))
  /\ \E i \in 1..Len(Get(obj, "type").v) :
       Get(obj, "type").v[i] = Str("VerifiableCredential")
NonNull(x) == x.t \notin {"undefined", "null"}

\* Detection as stated: a context array, a tagged type array, and a subject,
\* an issuer and an issuance date that are not null.
DetectedAsStated(obj) ==
  /\ IsObj(obj)
  /\ IsArr(Get(obj, "@context"))
  /\ HasCredentialTag(obj)
  /\ NonNull(Get(obj, "credentialSubject"))
  /\ NonNull(Get(obj, "issuer"))
  /\ NonNull(Get(obj, "issuanceDate"))

\* Detection, amended: a context of any type, a tagged type array, and all of
\* context, subject, issuer and issuance date truthy (not null, and not "",
\* 0 or false either).
DetectedAsAmended(obj) ==
  /\ IsObj(obj)
  /\ Truthy(Get(obj, "@context"))
  /\ HasCredentialTag(obj)
  /\ Truthy(Get(obj, "credentialSubject"))
  /\ Truthy(Get(obj, "issuer"))
  /\ Truthy(Get(obj, "issuanceDate"))

\* What parseCredentialFromQR is to return for the text, given what detection
\* says of the parsed value and of its credential member.
Found(raw, whole, inner) ==
  IF ~JSONparse(raw).ok THEN Null
  ELSE IF whole THEN JSONparse(raw).val
  ELSE IF inner THEN Get(JSONparse(raw).val, "credential")
  ELSE Null

\* C13 as stated: the parsed object, or else its credential member, is
\* returned exactly when it has the five parts as the claim describes them,
\* and null is returned otherwise, without a throw.
C13_DetectedExactlyWhen ==
  qrCall = "parseCredentialFromQR" =>
    /\ ~qrOut.threw
    /\ qrOut.value =
         Found(qrRaw,
               JSONparse(qrRaw).ok /\ DetectedAsStated(JSONparse(qrRaw).val),
               JSONparse(qrRaw).ok
                 /\ DetectedAsStated(Get(JSONparse(qrRaw).val, "credential")))

\* C13, amended: the same with presence meaning truthy, and no demand that
\* the context be an array.
C13_DetectedWhenTruthy ==
  qrCall = "parseCredentialFromQR" =>
    /\ ~qrOut.threw
    /\ qrOut.value =
         Found(qrRaw,
               JSONparse(qrRaw).ok /\ DetectedAsAmended(JSONparse(qrRaw).val),
               JSONparse(qrRaw).ok
                 /\ DetectedAsAmended(Get(JSONparse(qrRaw).val, "credential")))

\* A missing part: the object has four of the five and null came back.
C13_Witness ==
  /\ qrCall = "parseCredentialFromQR"
  /\ JSONparse(qrRaw).ok
  /\ IsObj(JSONparse(qrRaw).val)
  /\ Cardinality({f \in {"@context", "type", "credentialSubject", "issuer", "issuanceDate"} :
                    HasKey(JSONparse(qrRaw).val, f)}) = 4
  /\ ~HasKey(JSONparse(qrRaw).val, "issuer")
  /\ qrOut.value = Null
\* A context that is a text, not an array, and the object came back.
C13_WitnessContext ==
  /\ qrCall = "parseCredentialFromQR"
  /\ JSONparse(qrRaw).ok
  /\ IsStr(Get(JSONparse(qrRaw).val, "@context"))
  /\ qrOut.value = JSONparse(qrRaw).val
\* An issuer that is the empty text, not null, and null came back.
C13_WitnessEmpty ==
  /\ qrCall = "parseCredentialFromQR"
  /\ JSONparse(qrRaw).ok
  /\ Get(JSONparse(qrRaw).val, "issuer") = Str("")
  /\ qrOut.value = Null
\* A credential inside an envelope came back.
C13_WitnessEnvelope ==
  /\ qrCall = "parseCredentialFromQR"
  /\ JSONparse(qrRaw).ok
  /\ qrOut.value # Null
  /\ qrOut.value = Get(JSONparse(qrRaw).val, "credential")

\* An object with aliases and residual keys, and one with aliases only.
C11_Witness ==
  /\ FromJSONObject
  /\ KeySet(ScannedObject) \cap QRAliasKeys # {}
  /\ KeySet(ScannedObject) \ QRAliasKeys # {}
  /\ IsObj(Get(qrOut.value, "additionalData"))
  /\ KeySet(Get(qrOut.value, "additionalData")) = KeySet(ScannedObject) \ QRAliasKeys
C11_WitnessAbsent ==
  /\ FromJSONObject
  /\ KeySet(ScannedObject) # {}
  /\ KeySet(ScannedObject) \subseteq QRAliasKeys
  /\ Get(qrOut.value, "additionalData") = Undef
\* A credential subject with a residual key.
C11_WitnessSubject ==
  /\ FromSubject
  /\ KeySet(ScannedSubject) \cap SubjectAliasKeys # {}
  /\ IsObj(Get(qrOut.value, "additionalData"))
  /\ KeySet(Get(qrOut.value, "additionalData")) = KeySet(ScannedSubject) \ SubjectAliasKeys

----------------------------------------------------------------------------
(* Properties of reconciliation *)

StoredIdentities == LoadedIdentities(stored)

\* A credential matches a record: its subject id is the record's DID
\* reference, or its subject email the record's email, or its subject name or
\* givenName the record's name.
CredentialMatches(cred, record) ==
  LET subject == Get(cred, "credentialSubject") IN
  \/ Get(subject, "id") = Get(Get(record, "additionalData"), "did")
  \/ Get(subject, "email") = Get(record, "email")
  \/ Get(subject, "name") = Get(record, "name")
  \/ Get(subject, "givenName") = Get(record, "name")

\* The places, in wallet order, of the credentials that match the record.
MatchedPlaces(creds, record) ==
  {i \in 1..Len(creds) : CredentialMatches(creds[i], record)}

\* What a credential supplies for a field of the attribute set.
Supplied(cred, f) == Get(extractIdentityFromCredential(cred), f)
\* What it supplies for a key of additionalData.
SuppliedExtra(cred, key) ==
  Get(Get(extractIdentityFromCredential(cred), "additionalData"), key)
SuppliedKeys(cred) ==
  LET extra == Get(extractIdentityFromCredential(cred), "additionalData") IN
  {Keys(extra)[i] : i \in 1..Len(Keys(extra))}

\* The last step returned from a reconciliation that found a match.
Reconciled ==
  /\ lastReturn.op = "fetchAndPopulateIdentity"
  /\ ~lastReturn.threw
  /\ lastReturn.value.success
  /\ MatchedPlaces(lastReturn.creds, lastReturn.existing) # {}

\* C2: in the record a reconciliation returns, each of name, email and phone is
\* the value of the first matched credential, in wallet order, that supplies a
\* non-empty one, and the stored record's own value when none does.
C2_FirstSupplierWins ==
  Reconciled =>
    \A f \in {"name", "email", "phone"} :
      LET matched == MatchedPlaces(lastReturn.creds, lastReturn.existing)
          suppliers == {i \in matched : Truthy(Supplied(lastReturn.creds[i], f))}
      IN Get(lastReturn.value.identity, f) =
           IF suppliers = {} THEN Get(lastReturn.existing, f)
           ELSE Supplied(lastReturn.creds[SetMin(suppliers)], f)

\* Two matched credentials supply different names and the first one's is kept.
C2_Witness ==
  /\ Reconciled
  /\ \E i, j \in MatchedPlaces(lastReturn.creds, lastReturn.existing) :
       /\ i < j
       /\ Truthy(Supplied(lastReturn.creds[i], "name"))
       /\ Truthy(Supplied(lastReturn.creds[j], "name"))
       /\ Supplied(lastReturn.creds[i], "name") # Supplied(lastReturn.creds[j], "name")
       /\ Get(lastReturn.value.identity, "name") = Supplied(lastReturn.creds[i], "name")

\* No matched credential supplies a phone and the record's own phone is kept.
C2_WitnessOwnValue ==
  /\ Reconciled
  /\ \A i \in MatchedPlaces(lastReturn.creds, lastReturn.existing) :
       ~Truthy(Supplied(lastReturn.creds[i], "phone"))
  /\ Truthy(Get(lastReturn.existing, "phone"))
  /\ Get(lastReturn.value.identity, "phone") = Get(lastReturn.existing, "phone")

\* C3: in the record a reconciliation returns, additionalData has every key
\* that some matched credential supplies, and a key that several matched
\* credentials supply has the value of the last of them in wallet order.
C3_LastSupplierWins ==
  Reconciled =>
    LET matched == MatchedPlaces(lastReturn.creds, lastReturn.existing)
        merged == Get(lastReturn.value.identity, "additionalData")
    IN \A key \in UNION {SuppliedKeys(lastReturn.creds[i]) : i \in matched} :
         LET suppliers == {i \in matched : key \in SuppliedKeys(lastReturn.creds[i])}
         IN /\ HasKey(merged, key)
            /\ Cardinality(suppliers) > 1 =>
                 Get(merged, key) = SuppliedExtra(lastReturn.creds[SetMax(suppliers)], key)

\* The same for every key but the three the reconciliation writes itself.
AnnotationKeys == {"credentialCount", "lastFetched", "credentials"}
C3_LastSupplierWinsButAnnotations ==
  Reconciled =>
    LET matched == MatchedPlaces(lastReturn.creds, lastReturn.existing)
        merged == Get(lastReturn.value.identity, "additionalData")
    IN \A key \in UNION {SuppliedKeys(lastReturn.creds[i]) : i \in matched} :
         LET suppliers == {i \in matched : key \in SuppliedKeys(lastReturn.creds[i])}
         IN /\ HasKey(merged, key)
            /\ key \notin AnnotationKeys =>
                 Get(merged, key) = SuppliedExtra(lastReturn.creds[SetMax(suppliers)], key)

\* C4: when the credentials the wallet returned hold none that matches the
\* record read from storage, fetchAndPopulateIdentity returns success with that
\* record and a warning, and the step writes nothing to storage.
C4_NoMatchLeavesRecord ==
  [][\A t \in Slots :
       (/\ tasks[t].op = "fetchAndPopulateIdentity"
        /\ tasks[t].pc = "wallet.getAllCredentials"
        /\ tasks'[t].pc # "wallet.getAllCredentials"
        /\ MatchedPlaces(tasks[t].creds, tasks[t].existing) = {})
       => /\ lastReturn'.op = "fetchAndPopulateIdentity"
          /\ ~lastReturn'.threw
          /\ lastReturn'.value.success
          /\ lastReturn'.value.identity = tasks[t].existing
          /\ Len(lastReturn'.value.warnings) > 0
          /\ stored' = stored
          /\ tasks'[t].pc = "idle"]_vars

\* The wallet returned credentials, none matched, and the record came back.
C4_Witness ==
  /\ lastReturn.op = "fetchAndPopulateIdentity"
  /\ ~lastReturn.threw
  /\ Len(lastReturn.creds) > 0
  /\ MatchedPlaces(lastReturn.creds, lastReturn.existing) = {}
  /\ lastReturn.value.success
  /\ lastReturn.value.identity = lastReturn.existing
  /\ \E i \in 1..Len(StoredIdentities) :
       /\ Get(StoredIdentities[i], "id") = Get(lastReturn.existing, "id")
       /\ ~Truthy(Get(StoredIdentities[i], "isVerified"))

\* C9: a stored record is marked verified only if it was made from a
\* credential found in what was scanned or fetched, or was reconciled with at
\* least one related credential.
C9_VerifiedOnlyIfBacked ==
  \A i \in 1..Len(StoredIdentities) :
    Truthy(Get(StoredIdentities[i], "isVerified"))
      => /\ IsStr(Get(StoredIdentities[i], "id"))
         /\ Get(StoredIdentities[i], "id").v \in credBacked

\* A record made from plain data was reconciled and is now verified.
C9_Witness ==
  \E i \in 1..Len(StoredIdentities) :
    /\ Truthy(Get(StoredIdentities[i], "isVerified"))
    /\ HasKey(Get(StoredIdentities[i], "additionalData"), "credentialCount")
    /\ ~HasKey(Get(StoredIdentities[i], "additionalData"), "credentialId")
    /\ Get(StoredIdentities[i], "id").v \in credBacked

\* A record made from plain data is stored unverified.
C9_WitnessPlain ==
  \E i \in 1..Len(StoredIdentities) :
    /\ ~Truthy(Get(StoredIdentities[i], "isVerified"))
    /\ Get(StoredIdentities[i], "id").v \notin credBacked

----------------------------------------------------------------------------
(* Properties of the wallet service *)

GuardedOperations ==
  {"getWalletDID", "storeCredential", "getAllCredentials", "createPresentation",
   "createSelectiveDisclosurePresentation", "getIdentityData"}

\* C5: while the service has no wallet, a call of one of the six guarded
\* operations throws 'Wallet not initialized' at once: it does not start to
\* wait for the wallet library, and wallet, initialized and the credentials the
\* wallets hold stay as they are.
C5_UninitializedFailsFast ==
  [][(wallet = NoWallet /\ ~initialized) =>
       /\ \A t \in Slots :
            tasks'[t].op \in GuardedOperations => tasks[t].op = tasks'[t].op
       /\ (calls' # calls /\ lastReturn'.op \in GuardedOperations) =>
            /\ lastReturn'.threw
            /\ lastReturn'.error = WalletNotInitialized
            /\ UNCHANGED walletVars]_vars

\* getIdentityData was refused after a reset.
C5_Witness ==
  /\ lastReturn.op = "getIdentityData"
  /\ lastReturn.threw
  /\ lastReturn.error = WalletNotInitialized
  /\ epoch > 0
  /\ wallet = NoWallet /\ ~initialized

\* C6: of the initialize() calls made since the last reset(), by whichever
\* operation, at most one creates a wallet and assigns it.
C6_AtMostOnce == inits <= 1

\* C7: after reset() the service is initialized only by an initialize() call
\* made after that reset.
C7_ResetHolds == isInitialized => readyBorn = epoch

----------------------------------------------------------------------------
(* Properties of the store *)

IssuedIds == {Str(generateId(n)) : n \in 1..(nextId - 1)}

\* C8: every stored record carries an id that addIdentity gave, and no
\* operation writes back a record it loaded under another id than it had.
C8_IdNeverChanges ==
  /\ \A i \in 1..Len(StoredIdentities) : Get(StoredIdentities[i], "id") \in IssuedIds
  /\ \A t \in Slots :
       tasks[t].pc \in {"update:setItem", "add:setItem"} =>
         \A i \in 1..Len(tasks[t].loaded) :
           Get(tasks[t].list[i], "id") = Get(tasks[t].loaded[i], "id")

IdsOf(identities) == [i \in 1..Len(identities) |-> Get(identities[i], "id")]
Saving(t) == tasks[t].pc \in {"add:setItem", "update:setItem", "delete:setItem"}
\* The call in slot t loaded the list before the store was last written.
Stale(t) == Saving(t) /\ IdsOf(tasks[t].loaded) # IdsOf(StoredIdentities)
\* The call that returned in this step reported success.
ReportedSuccess(ret) ==
  /\ ~ret.threw
  /\ CASE ret.op \in {"addIdentity", "updateIdentity"} -> IsObj(ret.value)
        [] ret.op = "deleteIdentity" -> ret.value = Bool(TRUE)
        [] ret.op = "processQRCode" -> ret.value = Undef
        [] OTHER -> ret.value.success

\* C19: a lost update is reachable.  A save writes the list its call built
\* from its own load and reports success, whatever was saved since that load:
\* of two calls that both loaded before either saved, both report success and
\* the store holds the list of the later save only.
C19_LaterSaveWins ==
  [][\A t \in Slots :
       (Saving(t) /\ tasks'[t].pc = "idle")
         => /\ IdsOf(LoadedIdentities(stored')) = IdsOf(tasks[t].list)
            /\ ReportedSuccess(lastReturn')]_vars

\* Two adds were called and both returned, the second with success; both got
\* an id, and the store holds one record: the other add's record is gone.
C19_Witness ==
  /\ calls = 2 /\ nextId = 3
  /\ \A t \in Slots : tasks[t].pc = "idle"
  /\ lastReturn.op = "addIdentity" /\ ReportedSuccess(lastReturn)
  /\ Len(StoredIdentities) = 1
  /\ IdsOf(StoredIdentities) = <<Get(lastReturn.value, "id")>>
\* One call has just reported success and its record is stored; another is
\* about to save a list without that record.
C19_WitnessPending ==
  /\ lastReturn.op = "addIdentity" /\ ReportedSuccess(lastReturn)
  /\ \E i \in 1..Len(StoredIdentities) :
       Get(StoredIdentities[i], "id") = Get(lastReturn.value, "id")
  /\ \E t \in Slots :
       /\ Stale(t)
       /\ \A j \in 1..Len(tasks[t].list) :
            Get(tasks[t].list[j], "id") # Get(lastReturn.value, "id")
\* A reconciliation has just saved and reported success while a delete of
\* another record, loaded before, is about to save the list it built.
C19_WitnessReconciled ==
  /\ lastReturn.op = "fetchAndPopulateIdentity" /\ ReportedSuccess(lastReturn)
  /\ \E t \in Slots : Stale(t) \/ (Saving(t) /\ tasks[t].loaded # StoredIdentities)

\* The addIdentity call in slot t saves and returns its record.
AddSucceeds(t) ==
  /\ tasks[t].op = "addIdentity" /\ tasks[t].pc = "add:setItem"
  /\ tasks'[t].pc = "idle"
  /\ lastReturn'.op = "addIdentity" /\ ReportedSuccess(lastReturn')

\* C23: a successful addIdentity leaves every identity that was stored in
\* the store, followed by the new one, also when the read of the store
\* failed during the call.
C23_AddKeepsAll ==
  [][\A t \in Slots :
       AddSucceeds(t)
         => IdsOf(LoadedIdentities(stored'))
              = Append(IdsOf(StoredIdentities), Get(lastReturn'.value, "id"))]_vars

\* What holds with one call at a time: the store holds what the call's
\* loadIdentities returned, followed by the new record.
C23_AddKeepsLoaded ==
  [][\A t \in Slots :
       AddSucceeds(t)
         => IdsOf(LoadedIdentities(stored'))
              = Append(IdsOf(tasks[t].loaded), Get(lastReturn'.value, "id"))]_vars

\* Two adds returned success one after the other, the read of the second
\* failed, and the store holds the second record only.
C23_WitnessLost ==
  /\ calls = 2 /\ nextId = 3
  /\ lastReturn.op = "addIdentity" /\ ReportedSuccess(lastReturn)
  /\ IdsOf(StoredIdentities) = <<Str(generateId(2))>>

\* The call that returned in this step is a reconciliation that reports
\* success with a merged identity.
ReturnedMerged ==
  /\ lastReturn.op = "fetchAndPopulateIdentity"
  /\ ~lastReturn.threw
  /\ lastReturn.value.success
  /\ lastReturn.value.warnings = <<>>
\* The record as a save and a load of the store give it back.
AsStored(identity) == LoadedIdentities(SavedItem(<<identity>>, now))[1]
PlacesOf(id) == {i \in 1..Len(StoredIdentities) : Get(StoredIdentities[i], "id") = id}

\* C25: when fetchAndPopulateIdentity returns success with a merged identity,
\* the store holds that identity under its id at that moment.
C25_StoreHoldsMerged ==
  ReturnedMerged
    => \E i \in PlacesOf(Get(lastReturn.value.identity, "id")) :
         StoredIdentities[i] = AsStored(lastReturn.value.identity)

\* What holds: the store holds the merged identity under its id, or holds
\* no record under that id.
C25_HoldsMergedOrNothing ==
  ReturnedMerged
    => \/ PlacesOf(Get(lastReturn.value.identity, "id")) = {}
       \/ \E i \in PlacesOf(Get(lastReturn.value.identity, "id")) :
            StoredIdentities[i] = AsStored(lastReturn.value.identity)

\* A reconciliation returned success with a merged identity and the store
\* is empty: the record was deleted between its read and its update.
C25_WitnessDeleted ==
  /\ ReturnedMerged
  /\ Get(lastReturn.value.identity, "isVerified") = Bool(TRUE)
  /\ stored # NoItem
  /\ StoredIdentities = <<>>
\* A reconciliation returned success and the store holds its identity.
C25_WitnessHeld ==
  /\ ReturnedMerged
  /\ \E i \in PlacesOf(Get(lastReturn.value.identity, "id")) :
       StoredIdentities[i] = AsStored(lastReturn.value.identity)

----------------------------------------------------------------------------
(* Properties of the presentation *)

\* A call of either operation has the record and the wallet's credentials
\* in hand and is about to select.
Selecting(t) ==
  /\ tasks[t].op \in {"fetchAndPopulateIdentity", "createVerifiablePresentation"}
  /\ tasks[t].pc = "wallet.getAllCredentials"
  /\ \A i \in 1..Len(tasks[t].creds) : CanRead(Get(tasks[t].creds[i], "credentialSubject"))

\* C18: for the same record and wallet, createVerifiablePresentation selects
\* exactly the credentials fetchAndPopulateIdentity matches.
C18_SameSelection ==
  \A t \in Slots :
    Selecting(t) => identityCredentials(tasks[t].creds, tasks[t].existing)
                      = relatedCredentials(tasks[t].creds, tasks[t].existing)

\* What does hold: the presentation selects nothing reconciliation would not,
\* and what it leaves out matches the record by givenName only.
C18_SelectsNoMore ==
  \A t \in Slots :
    Selecting(t) =>
      \A i \in 1..Len(tasks[t].creds) :
        LET cred == tasks[t].creds[i]
            subject == Get(cred, "credentialSubject") IN
        /\ IsIdentityCredential(cred, tasks[t].existing) => IsRelated(cred, tasks[t].existing)
        /\ (IsRelated(cred, tasks[t].existing) /\ ~IsIdentityCredential(cred, tasks[t].existing))
             => StrictEq(Get(subject, "givenName"), Get(tasks[t].existing, "name"))

\* A presentation was refused for a record that reconciliation would match.
C18_WitnessRefused ==
  /\ lastReturn.op = "createVerifiablePresentation"
  /\ ~lastReturn.threw
  /\ lastReturn.value = Failure("No verifiable credentials found for this identity")
  /\ Len(relatedCredentials(lastReturn.creds, lastReturn.existing)) > 0
\* A presentation was made of the credentials reconciliation would match.
C18_WitnessPresented ==
  /\ lastReturn.op = "createVerifiablePresentation"
  /\ ~lastReturn.threw
  /\ lastReturn.value.success
  /\ Len(lastReturn.creds) > 0
  /\ identityCredentials(lastReturn.creds, lastReturn.existing)
       = relatedCredentials(lastReturn.creds, lastReturn.existing)

Present(x) == x # Undef /\ x # Null
\* The credential and the record share a value that both have.
SharesPresentValue(cred, record) ==
  LET subject == Get(cred, "credentialSubject")
      did == Get(Get(record, "additionalData"), "did")
  IN \/ Present(did) /\ Get(subject, "id") = did
     \/ Present(Get(record, "email")) /\ Get(subject, "email") = Get(record, "email")
     \/ Present(Get(record, "name")) /\ Get(subject, "name") = Get(record, "name")
     \/ Present(Get(record, "name")) /\ Get(subject, "givenName") = Get(record, "name")

\* C24: every credential either filter selects for a record shares with it a
\* value present on both sides; a field absent from both never makes a match.
C24_MatchSharesValue ==
  \A t \in Slots :
    Selecting(t) =>
      \A i \in 1..Len(tasks[t].creds) :
        (\/ tasks[t].op = "fetchAndPopulateIdentity"
               /\ IsRelated(tasks[t].creds[i], tasks[t].existing)
         \/ tasks[t].op = "createVerifiablePresentation"
               /\ IsIdentityCredential(tasks[t].creds[i], tasks[t].existing))
          => SharesPresentValue(tasks[t].creds[i], tasks[t].existing)

\* What holds: a selected credential that shares no present value has no
\* subject id, and the record no DID reference.
C24_MatchOrBothLackId ==
  \A t \in Slots :
    Selecting(t) =>
      \A i \in 1..Len(tasks[t].creds) :
        IsRelated(tasks[t].creds[i], tasks[t].existing)
          => \/ SharesPresentValue(tasks[t].creds[i], tasks[t].existing)
             \/ /\ Get(Get(tasks[t].creds[i], "credentialSubject"), "id") = Undef
                /\ Get(Get(tasks[t].existing, "additionalData"), "did") = Undef

\* A reconciliation returned a record as verified on the strength of
\* credentials none of which shares a present value with it.
C24_WitnessUnrelated ==
  /\ lastReturn.op = "fetchAndPopulateIdentity"
  /\ ~lastReturn.threw
  /\ lastReturn.value.success
  /\ Get(lastReturn.value.identity, "isVerified") = Bool(TRUE)
  /\ Get(lastReturn.existing, "isVerified") = Bool(FALSE)
  /\ \A i \in 1..Len(lastReturn.creds) :
       ~SharesPresentValue(lastReturn.creds[i], lastReturn.existing)

----------------------------------------------------------------------------
(* Properties of the fetch service under faults *)

FetchErrors ==
  {"Identity not found in local storage", "Failed to fetch and populate identity data",
   "Identity not found", "No verifiable credentials found for this identity",
   "Failed to create verifiable presentation", "Failed to fetch from remote source",
   "HTTP 404: Not Found"}

\* The call in slot t asks for a record the store does not hold, and takes
\* its step.
UnknownIdStep(t) ==
  /\ tasks[t].op \in {"fetchAndPopulateIdentity", "createVerifiablePresentation"}
  /\ tasks[t].pc = "getById:getItem"
  /\ FindIndex(StoredIdentities, Str(tasks[t].id)) = 0
  /\ tasks'[t] # tasks[t]

\* C20: no call of fetchAndPopulateIdentity, createVerifiablePresentation,
\* fetchFromRemoteSource or refreshAllCredentials ends by throwing; a result
\* with success = false carries an error message; and a call for an unknown
\* identity id fails without writing to the wallet or to the store.
C20_NoFaultEscapes ==
  [][/\ lastReturn'.op \in FetchOperations \cup {"refreshAllCredentials"}
          => ~lastReturn'.threw
     /\ (lastReturn'.op \in FetchOperations /\ ~lastReturn'.value.success)
          => lastReturn'.value.error \in FetchErrors
     /\ lastReturn'.op = "refreshAllCredentials"
          => \A i \in 1..Len(lastReturn'.value.errors) :
               lastReturn'.value.errors[i].error \in FetchErrors
     /\ \A t \in Slots :
          UnknownIdStep(t)
            => /\ UNCHANGED <<walletVars, storeVars>>
               /\ tasks[t].outer
                  \/ (lastReturn'.op = tasks[t].op /\ ~lastReturn'.value.success)]_vars

\* A call that found its record ended in its catch block: it returned a
\* failure with the message of the block.
C20_Witness ==
  /\ lastReturn.op = "fetchAndPopulateIdentity"
  /\ ~lastReturn.threw
  /\ lastReturn.existing # Undef
  /\ ~lastReturn.value.success
  /\ lastReturn.value.error = "Failed to fetch and populate identity data"
\* A call for an id the store does not hold returned its failure; nothing
\* was ever stored and no wallet made.
C20_WitnessUnknown ==
  /\ lastReturn.op = "createVerifiablePresentation"
  /\ ~lastReturn.value.success
  /\ lastReturn.value.error = "Identity not found"
  /\ stored = NoItem /\ wallet = NoWallet
\* refreshAllCredentials returned with one record updated and one failed.
C20_WitnessRefresh ==
  /\ lastReturn.op = "refreshAllCredentials"
  /\ lastReturn.value.updated = 1
  /\ Len(lastReturn.value.errors) = 1
\* A remote fetch ended in its catch block.
C20_WitnessRemote ==
  /\ lastReturn.op = "fetchFromRemoteSource"
  /\ ~lastReturn.value.success
  /\ lastReturn.value.error = "Failed to fetch from remote source"

----------------------------------------------------------------------------
(* Properties of the scan *)

Rejects(data) == ~ScanTable[data].validation.isValid

\* C21: when validateQRData rejects the scanned text, processQRCode sets the
\* error and ends there: the call is never in flight, so it reaches no await
\* of the wallet or of the store, and the step that makes the call leaves the
\* wallet, its credentials, the store and the context's list as they were.
C21_GateFirst ==
  [][/\ \A t \in Slots : tasks'[t].op = "processQRCode" => ~Rejects(tasks'[t].data)
     /\ (calls' = calls + 1 /\ lastReturn'.op = "processQRCode"
           /\ Rejects(lastReturn'.data))
          => /\ scanError' = Or(ScanTable[lastReturn'.data].validation.error,
                                Str("Invalid QR code"))
             /\ scanError' # Null
             /\ tasks' = tasks
             /\ UNCHANGED <<walletVars, storeVars, ctxIdentities, isScanning, histVars>>]_vars

\* A rejected scan returned with the error set, after an earlier scan made a
\* wallet and a record: both are as that scan left them.
C21_Witness ==
  /\ lastReturn.op = "processQRCode"
  /\ Rejects(lastReturn.data)
  /\ scanError # Null
  /\ wallet # NoWallet /\ Len(walletCreds[wallet]) = 1
  /\ Len(LoadedIdentities(stored)) = 1
\* A rejected scan as the first call: no wallet was made, nothing stored.
C21_WitnessFirst ==
  /\ lastReturn.op = "processQRCode"
  /\ Rejects(lastReturn.data)
  /\ scanError # Null
  /\ wallet = NoWallet /\ ~initialized /\ stored = NoItem /\ inits = 0

\* The call in slot t has had its credential stored by the wallet, and
\* returns in this step.
ReturnsAfterStoring(t) ==
  /\ tasks[t].op \in {"processQRCode", "fetchFromRemoteSource"}
  /\ tasks[t].backed
  /\ tasks[t].pc \in {"add:getItem", "add:setItem"}
  /\ tasks'[t].pc = "idle"

\* C26: a call of processQRCode or fetchFromRemoteSource that has added a
\* credential to the wallet returns, with or without an error, only after
\* the record made from that credential was added to the store.
C26_AllOrNothing ==
  [][\A t \in Slots :
       ReturnsAfterStoring(t)
         => \E i \in 1..Len(LoadedIdentities(stored')) :
              /\ Get(LoadedIdentities(stored')[i], "id") = Get(tasks[t].fresh, "id")
              /\ Get(Get(LoadedIdentities(stored')[i], "additionalData"), "credentialId")
                   = Get(Get(tasks[t].fresh, "additionalData"), "credentialId")]_vars

\* What holds: such a call returns with the record stored, or from its
\* catch block with the store as it was.
C26_StoredOrCaught ==
  [][\A t \in Slots :
       ReturnsAfterStoring(t)
         => \/ \E i \in 1..Len(LoadedIdentities(stored')) :
                 Get(LoadedIdentities(stored')[i], "id") = Get(tasks[t].fresh, "id")
            \/ /\ stored' = stored
               /\ IF tasks[t].op = "processQRCode"
                    THEN scanError' = Str(ScanFailed)
                    ELSE ~lastReturn'.value.success]_vars

\* A scan ended in its error with the credential in the wallet and nothing
\* in the store.
C26_WitnessHalf ==
  /\ lastReturn.op = "processQRCode"
  /\ scanError = Str(ScanFailed)
  /\ wallet # NoWallet /\ Len(walletCreds[wallet]) = 1
  /\ stored = NoItem
  /\ calls = 1

----------------------------------------------------------------------------
(* Properties of the provider *)

\* The provider's list, each record as the store would hold it.
ContextAsStored == [i \in 1..Len(ctxIdentities) |-> AsStored(ctxIdentities[i])]
InStep == ContextAsStored = StoredIdentities

\* C27: whenever no operation of the context is in flight, loading is false
\* and the provider's list holds exactly the records the store holds.
C27_ContextMatchesStore == Alone => (ctxLoading = FALSE /\ InStep)

\* C27 (what the provider keeps): once the load made on mount is over, loading
\* is true only while a load is in flight.
C27_LoadingOnlyWhileLoading ==
  ctxLoading = TRUE => \E t \in Slots : tasks[t].pc = "load:getItem"

\* Both adds returned; the store holds the record of one, the list of the
\* provider holds both.
C27_WitnessApart ==
  /\ Alone /\ ctxLoading = FALSE
  /\ Len(ctxIdentities) = 2 /\ Len(StoredIdentities) = 1
C27_WitnessInStep ==
  /\ Alone /\ ctxLoading = FALSE /\ InStep /\ Len(ctxIdentities) = 2

----------------------------------------------------------------------------
(* Properties of reconciliation run again *)

\* Slot t runs the filter and the merge of fetchAndPopulateIdentity on a
\* record a run already populated (it carries lastFetched).
RunsAgain(t) ==
  /\ tasks[t].op = "fetchAndPopulateIdentity"
  /\ tasks[t].pc = "wallet.getAllCredentials"
  /\ tasks'[t].pc # "wallet.getAllCredentials"
  /\ IsObj(Get(tasks[t].existing, "additionalData"))
  /\ HasKey(Get(tasks[t].existing, "additionalData"), "lastFetched")
SameOutcome(a, b) ==
  /\ \A f \in {"name", "email", "phone", "isVerified"} : Get(a, f) = Get(b, f)
  /\ \A f \in {"credentialCount", "credentials"} :
       Get(Get(a, "additionalData"), f) = Get(Get(b, "additionalData"), f)

\* C28: a run of fetchAndPopulateIdentity on a record an earlier run
\* populated, the wallet being the same, selects the credentials the earlier
\* run selected and leaves name, email, phone, isVerified, credentialCount
\* and the credentials list as they were.
C28_SecondRunSame ==
  [][\A t \in Slots :
       RunsAgain(t) =>
         /\ CredentialSummaries(relatedCredentials(tasks[t].creds, tasks[t].existing))
              = Get(Get(tasks[t].existing, "additionalData"), "credentials")
         /\ tasks'[t].pc = "update:getItem"
         /\ SameOutcome(tasks'[t].arg, tasks[t].existing)]_vars

----------------------------------------------------------------------------
(* Properties of the remote fetch *)

\* Slot t returns from a fetchFromRemoteSource whose response was 2xx and
\* carried a verifiable credential.
RemoteCredentialReturns(t) ==
  /\ tasks[t].op = "fetchFromRemoteSource"
  /\ tasks[t].pc \in {"response.json", "wallet.storeCredential",
                      "add:getItem", "add:setItem"}
  /\ RemoteTable[tasks[t].arg].credential # Null
  /\ tasks'[t].pc = "idle"

\* C29: a fetchFromRemoteSource that received a 2xx response carrying a valid
\* credential returns success with a verified identity that is in the store,
\* whether or not the wallet had been initialized.
C29_SucceedsEitherWay ==
  [][\A t \in Slots :
       RemoteCredentialReturns(t) =>
         /\ lastReturn'.value.success
         /\ Get(lastReturn'.value.identity, "isVerified") = Bool(TRUE)
         /\ \E i \in 1..Len(LoadedIdentities(stored')) :
              Get(LoadedIdentities(stored')[i], "id") = Get(lastReturn'.value.identity, "id")]_vars

\* C29 (what the service does): such a call fails exactly when the service
\* holds no wallet at the time the body has been read.
C29_FailsWithoutWallet ==
  [][\A t \in Slots :
       RemoteCredentialReturns(t) =>
         (lastReturn'.value.success <=> tasks[t].pc = "add:setItem")]_vars
C29_WitnessRefused ==
  /\ lastReturn.op = "fetchFromRemoteSource"
  /\ ~lastReturn.value.success
  /\ lastReturn.value.error = "Failed to fetch from remote source"
  /\ wallet = NoWallet /\ stored = NoItem /\ calls = 1

----------------------------------------------------------------------------
(* Properties of the analytics buffer *)

SerialsHeld == {events[i].properties.serial : i \in 1..Len(events)}

\* C30: the service holds at most 100 events, and they are the ones it was
\* given last: whatever was read or trimmed in between, an event is dropped
\* only when every event given before it has been dropped.
C30_HoldsMostRecent ==
  /\ Len(events) <= maxStoredEvents
  /\ SerialsHeld = (received - Len(events) + 1)..received

\* C30 (what the service keeps): never more than 100 events, and as many as
\* it was given up to 100, each held once.
C30_HoldsHundred ==
  /\ Len(events) = Min(received, maxStoredEvents)
  /\ Cardinality(SerialsHeld) = Len(events)
  /\ SerialsHeld \subseteq 1..received
C30_WitnessEvictedNewest ==
  /\ Len(events) = maxStoredEvents
  /\ received = maxStoredEvents + 1
  /\ 1 \in SerialsHeld /\ maxStoredEvents \notin SerialsHeld
C30_WitnessEvictedOldest ==
  /\ Len(events) = maxStoredEvents
  /\ received = maxStoredEvents + 1
  /\ SerialsHeld = 2..received

============================================================================
